---- MODULE Spec2Model ----
(***************************************************************************)
(* Model of the Obsidian -> Confluence upload plugin.                      *)
(*                                                                         *)
(*   Spec       the publish pipeline of main.ts (performUpload and         *)
(*              performCreate) over ConfluenceAPI and the converter        *)
(*   SpecLive   the pipeline with every awaited call settling              *)
(*   SpecRace   the pipeline with the Mermaid toggle of the settings tab   *)
(*   SpecConfig the two commands with any settings                         *)
(*   SpecApi    the methods of ConfluenceAPI called with any arguments     *)
(*   SpecLists  MarkdownToConfluenceConverter.convertLists, line by line   *)
(*   SpecTables MarkdownToConfluenceConverter.convertTables, line by line  *)
(*   SpecFormat convertMarkdownToConfluence on lines of block elements     *)
(*   SpecLegacy MarkdownToConfluenceConverter.convert: code and emphasis   *)
(*   SpecRestore restoreCodeBlocks on the result of extractCodeBlocks       *)
(*   SpecCode   the code-block path of SimpleConfluenceConverter.convert   *)
(*   SpecClean  the clean-up of SimpleConfluenceConverter.convert on html   *)
(*                                                                         *)
(* Text is a sequence of tokens [t, n, s]: a character Ch(c), or an        *)
(* indivisible piece of markup (a diagram placeholder, an image reference, *)
(* the head of a code macro, ...).                                         *)
(***************************************************************************)
EXTENDS Integers, Sequences, FiniteSets, TLC

VARIABLES
    \* ---- publish pipeline (main.ts) ----
    pc,            \* position of the running action
    op,            \* "upload" | "create" | "none"
    src,           \* markdownContent, a sequence of blocks
    spaceKey,      \* the space key of a create action
    running,       \* enableMermaid of the converter whose convert was called
    pageId,        \* the target page id ("" before createPage returned)
    mermaidData,   \* [null, list]: null, or the list of {index, svg, code}
    processed,     \* processedMarkdown of processMermaidBlocks
    rendering,     \* the list processMermaidBlocks is building
    finalHtml,     \* the local finalHtml
    idx,           \* number of diagram items the for-loop has handled
    renderer,      \* the local mermaidRenderer (TRUE: an object, FALSE: null)
    upd,           \* the running updatePage call: its phase and the fetched page
    calls,         \* every converter/API call the action issued, in order
    reqs,          \* the HTTP requests of the ConfluenceAPI calls, in order
    store,         \* the remote store: page id -> [version, title]
    settings,      \* plugin.settings (shared with ConfluenceAPI)
    settings0,     \* settings when the action started
    converterMermaid, \* plugin.converter was built with enableMermaid
    notices,       \* the Notices shown to the user
    modalOpen,     \* the ProgressModal is open
    attachments,   \* the remote store: <<page id, file name>> -> attachments of that name
    \* ---- convertLists (converter.ts) ----
    lpc, lines, listStack, result,
    \* ---- code blocks (simpleConverter) ----
    cpc, codeText, codeLang, cleaned,
    \* ---- convertTables (converter.ts): with lines and result above ----
    tpc,           \* position in convertTables
    ti,            \* the loop index i (from 1)
    inTable,       \* the local inTable
    \* ---- MarkdownToConfluenceConverter.convert (converter.ts) ----
    mpc,           \* position in convert
    markdownArg,   \* the argument markdown of convert
    content,       \* the text being converted
    codeBlocks,    \* this.codeBlocks: the entries {placeholder, block} in insertion order
    codeBlockCounter, \* this.codeBlockCounter
    runs           \* the calls of convert on this converter that have returned

pvars == <<pc, op, src, spaceKey, running, pageId, mermaidData, processed, rendering, finalHtml, idx, renderer,
           upd, calls, reqs, store, settings, settings0, converterMermaid,
           notices, modalOpen, attachments>>
lvars == <<lpc, lines, listStack, result>>
cvars == <<cpc, codeText, codeLang, cleaned>>
tvars == <<tpc, ti, inTable>>
mvars == <<mpc, markdownArg, content, codeBlocks, codeBlockCounter, runs>>
vars == <<pvars, lvars, cvars, tvars, mvars>>

----------------------------------------------------------------------------
(* Bounds of the model *)

\* blocks in a source document
MaxBlocks == 3

\* lines given to convertLists, to convertTables
MaxLines == 4

\* the deepest indentation of a list item
MaxIndent == 2

\* pieces a code text is put together from
MaxChunks == 2

\* calls of ConfluenceAPI methods in a run of the API on its own
MaxCalls == 2

\* pieces the markdown given to MarkdownToConfluenceConverter.convert is put
\* together from
MaxPieces == 3

\* pieces the html given to the clean-up is put together from
MaxParts == 3

\* calls of convert on one MarkdownToConfluenceConverter
MaxRuns == 2

----------------------------------------------------------------------------
(* Tokens *)

\* one character of text
Ch(c) == [t |-> "ch", n |-> 0, s |-> c]

\* an indivisible piece of markup that is none of the ones below
Mk(name) == [t |-> "mk", n |-> 0, s |-> name]

\* `<!--MERMAID_PLACEHOLDER_${index}-->`
Placeholder(i) == [t |-> "ph", n |-> i, s |-> ""]

\* `mermaid-${item.index}.svg`; NoFile is the null filename
Filename(i) == i

NoFile == -1

IsSpace(c) == c.t = "ch" /\ c.s \in {" ", "\n"}

RECURSIVE TrimStart(_)
TrimStart(s) ==
    IF s /= <<>> /\ IsSpace(Head(s)) THEN TrimStart(Tail(s)) ELSE s

RECURSIVE TrimEnd(_)
TrimEnd(s) ==
    IF s /= <<>> /\ IsSpace(s[Len(s)]) THEN TrimEnd(SubSeq(s, 1, Len(s) - 1)) ELSE s

\* String.prototype.trim
Trim(s) == TrimEnd(TrimStart(s))

\* the characters U+0060 and U+0027 of the replacement patterns
Backtick == Ch("grave accent")

Apostrophe == Ch("'")

\* the replacement text of String.prototype.replace(string, string): the
\* patterns $$, $&, $` and $' are expanded, every other character is literal
RECURSIVE GetSubstitution(_, _, _, _)
GetSubstitution(repl, matched, before, after) ==
    IF repl = <<>> THEN <<>>
    ELSE IF /\ Head(repl) = Ch("$")
            /\ Len(repl) >= 2
            /\ repl[2] \in {Ch("$"), Ch("&"), Backtick, Apostrophe}
    THEN (CASE repl[2] = Ch("$") -> <<Ch("$")>>
            [] repl[2] = Ch("&") -> matched
            [] repl[2] = Backtick -> before
            [] repl[2] = Apostrophe -> after)
         \o GetSubstitution(SubSeq(repl, 3, Len(repl)), matched, before, after)
    ELSE <<Head(repl)>> \o GetSubstitution(Tail(repl), matched, before, after)

Range(s) == {s[k] : k \in DOMAIN s}

Positions(s, tok) == {k \in 1..Len(s) : s[k] = tok}

Min(S) == CHOOSE x \in S : \A y \in S : x <= y

RECURSIVE Flatten(_)
Flatten(ss) == IF ss = <<>> THEN <<>> ELSE Head(ss) \o Flatten(Tail(ss))

\* s.replace(pattern, repl) for a string pattern: the first occurrence only
ReplaceFirst(s, tok, repl) ==
    IF Positions(s, tok) = {} THEN s
    ELSE LET k == Min(Positions(s, tok))
             before == SubSeq(s, 1, k - 1)
             after == SubSeq(s, k + 1, Len(s))
         IN before \o GetSubstitution(repl, <<tok>>, before, after) \o after

----------------------------------------------------------------------------
(* SimpleConfluenceConverter: the final clean-up of convert *)

\* the /i flag, for the letters of the tag names the rules look for
Lower(c) ==
    CASE c = "H" -> "h" [] c = "R" -> "r" [] c = "B" -> "b"
      [] c = "I" -> "i" [] c = "M" -> "m" [] c = "G" -> "g"
      [] OTHER -> c

IsChar(s, p, c) == p >= 1 /\ p <= Len(s) /\ s[p].t = "ch" /\ Lower(s[p].s) = c

\* s has the characters of word (case-insensitively) from position p on
RECURSIVE HasWord(_, _, _)
HasWord(s, p, word) ==
    \/ word = <<>>
    \/ /\ IsChar(s, p, Head(word))
       /\ HasWord(s, p + 1, Tail(word))

\* \s*: the first position from p on that holds no white space
RECURSIVE SkipSpace(_, _)
SkipSpace(s, p) ==
    IF p <= Len(s) /\ IsSpace(s[p]) THEN SkipSpace(s, p + 1) ELSE p

\* [^>]+ in <img([^>]+)...>: the position of the first ">" from p on. A piece
\* of markup holds a ">" too; Len(s) + 1 when there is none
RECURSIVE FirstGt(_, _)
FirstGt(s, p) ==
    IF p > Len(s) THEN p
    ELSE IF s[p].t /= "ch" \/ s[p].s = ">" THEN p
    ELSE FirstGt(s, p + 1)

TagName(rule) ==
    CASE rule \in {"hrOpen", "hrSlash", "hrClose"} -> <<"h", "r">>
      [] rule \in {"brOpen", "brSlash", "brClose"} -> <<"b", "r">>
      [] rule = "img" -> <<"i", "m", "g">>

\* the number of tokens the rule's pattern matches at position p, 0 for no match
MatchLen(rule, s, p) ==
    LET name == TagName(rule)
        q == p + 1 + Len(name)
    IN CASE rule \in {"hrOpen", "brOpen"} ->
              \* /<hr\s*>/gi, /<br\s*>/gi
              IF HasWord(s, p, <<"<">> \o name) /\ IsChar(s, SkipSpace(s, q), ">")
              THEN SkipSpace(s, q) - p + 1 ELSE 0
         [] rule \in {"hrSlash", "brSlash"} ->
              \* /<hr\s*\/\s*>/gi, /<br\s*\/\s*>/gi
              LET r == SkipSpace(s, q)
                  e == SkipSpace(s, r + 1)
              IN IF HasWord(s, p, <<"<">> \o name) /\ IsChar(s, r, "/") /\ IsChar(s, e, ">")
                 THEN e - p + 1 ELSE 0
         [] rule \in {"hrClose", "brClose"} ->
              \* /<\/hr>/gi, /<\/br>/gi
              IF HasWord(s, p, <<"<", "/">> \o name \o <<">">>) THEN Len(name) + 3 ELSE 0
         [] rule = "img" ->
              \* /<img([^>]+)(?<!\/)\s*>/gi: at least one character before the
              \* first ">", the last of them no "/"
              LET e == FirstGt(s, q)
              IN IF /\ HasWord(s, p, <<"<">> \o name)
                    /\ e <= Len(s)
                    /\ (s[e].t = "ch" => e > q /\ ~IsChar(s, e - 1, "/"))
                 THEN e - p + 1 ELSE 0

\* a piece of markup with a "/" put before its first ">"
Broken(tok) == [tok EXCEPT !.t = "broken"]

\* what the rule puts in the place of the m tokens matched at p
Replacement(rule, s, p, m) ==
    CASE rule \in {"hrOpen", "hrSlash"} -> <<Ch("<"), Ch("h"), Ch("r"), Ch("/"), Ch(">")>>
      [] rule \in {"brOpen", "brSlash"} -> <<Ch("<"), Ch("b"), Ch("r"), Ch("/"), Ch(">")>>
      [] rule \in {"hrClose", "brClose"} -> <<>>
      [] rule = "img" ->
           \* '<img$1/>'
           <<Ch("<"), Ch("i"), Ch("m"), Ch("g")>> \o SubSeq(s, p + 4, p + m - 2)
           \o (IF s[p + m - 1].t = "ch" THEN <<Ch("/"), Ch(">")>>
               ELSE <<Broken(s[p + m - 1])>>)

\* s.replace(/.../g, ...): every match, left to right, without overlap
RECURSIVE ReplaceAll(_, _, _)
ReplaceAll(rule, s, p) ==
    IF p > Len(s) THEN <<>>
    ELSE LET m == MatchLen(rule, s, p)
         IN IF m > 0 THEN Replacement(rule, s, p, m) \o ReplaceAll(rule, s, p + m)
            ELSE <<s[p]>> \o ReplaceAll(rule, s, p + 1)

\* the rules of the clean-up in the order the code applies them
CleanupRules == <<"hrOpen", "hrSlash", "brOpen", "brSlash", "img", "hrClose", "brClose">>

RECURSIVE ApplyRules(_, _)
ApplyRules(rules, s) ==
    IF rules = <<>> THEN s
    ELSE ApplyRules(Tail(rules), ReplaceAll(Head(rules), s, 1))

\* cleaned = String(html).trim() followed by the chain of replace calls
Cleanup(html) == ApplyRules(CleanupRules, Trim(html))

----------------------------------------------------------------------------
(* SimpleConfluenceConverter and MermaidRenderer *)

\* A source document is a sequence of blocks: a paragraph of text, or a fenced
\* ```mermaid block with the text between its fences (match[1]) as code
TextBlock == [kind |-> "text", code |-> <<>>, n |-> 0]

MermaidBlock(c) == [kind |-> "mermaid", code |-> c, n |-> 0]

\* the placeholder standing where diagram block i stood
PlaceholderBlock(i) == [kind |-> "ph", code |-> <<>>, n |-> i]

\* the matches array of processMermaidBlocks: {code: match[1].trim(), fullMatch}
Matches(md) ==
    LET found == SelectSeq(md, LAMBDA b : b.kind = "mermaid")
    IN [k \in 1..Len(found) |-> [code |-> Trim(found[k].code), fullMatch |-> found[k]]]

\* a replace that takes the last block equal to the match
ReplaceLastBlock(md, fullMatch, placeholder) ==
    LET at == {k \in 1..Len(md) : md[k] = fullMatch}
    IN IF at = {} THEN md
       ELSE [md EXCEPT ![CHOOSE k \in at : \A j \in at : j <= k] = placeholder]

\* processedMarkdown.replace(fullMatch, placeholder): the first block equal to
\* the match (the placeholder holds no replacement pattern)
ReplaceBlock(md, fullMatch, placeholder) ==
    LET at == {k \in 1..Len(md) : md[k] = fullMatch}
    IN IF at = {} THEN md ELSE [md EXCEPT ![Min(at)] = placeholder]

NullData == [null |-> TRUE, list |-> <<>>]

Data(list) == [null |-> FALSE, list |-> list]

\* one entry of mermaidData; svg is "" for null
Item(index, svg, code) == [index |-> index, svg |-> svg, code |-> code]

\* generateConfluenceMarkup(filename, code)
GenerateConfluenceMarkup(filename, code) ==
    IF filename /= NoFile
    THEN <<[t |-> "img", n |-> filename, s |-> ""]>>
    ELSE <<Mk("<mermaid-macro><![CDATA[")>> \o code \o <<Mk("]]></mermaid-macro>")>>

LanguageMap(lang) ==
    CASE lang = "js" -> "javascript" [] lang = "ts" -> "typescript"
      [] lang = "tsx" -> "typescript" [] lang = "jsx" -> "javascript"
      [] lang = "py" -> "python" [] lang = "yml" -> "yaml"
      [] lang = "sh" -> "bash" [] lang = "shell" -> "bash"
      [] lang = "json" -> "javascript"
      [] OTHER -> lang

\* toLowerCase, for the language labels of the model
LowerLang(lang) ==
    CASE lang = "JS" -> "js" [] lang = "Mermaid" -> "mermaid" [] OTHER -> lang

\* the head of the code macro, up to and including `<![CDATA[`
CodeOpen(lang) == [t |-> "code", n |-> 0, s |-> lang]

\* `]]></ac:plain-text-body>` and the end of the macro
CodeClose == <<Ch("]"), Ch("]"), Ch(">"), Mk("</ac:plain-text-body></ac:structured-macro>")>>

\* renderer.code(token) for a token {text, raw, lang}
RendererCode(token) ==
    LET code == IF token.text /= <<>> THEN token.text ELSE token.raw
        lang == IF token.lang /= "" THEN token.lang ELSE "text"
        mappedLang == LanguageMap(LowerLang(lang))
    IN IF LowerLang(lang) = "mermaid"
       THEN <<Mk("<!--MERMAID_BLOCK_PLACEHOLDER_START-->")>> \o code
            \o <<Mk("<!--MERMAID_BLOCK_PLACEHOLDER_END-->")>>
       ELSE <<CodeOpen(mappedLang)>> \o code \o CodeClose

\* the token marked's lexer makes of a fenced block: text is the text between
\* the fences without its last line end, raw the whole fence
FenceToken(lang, body) ==
    [text |-> IF body /= <<>> /\ body[Len(body)] = Ch("\n")
              THEN SubSeq(body, 1, Len(body) - 1) ELSE body,
     raw |-> <<Mk("fence"), Mk(lang), Ch("\n")>> \o body \o <<Mk("fence")>>,
     lang |-> lang]

\* marked.parse(processedMarkdown), block by block: a paragraph, a comment
\* passed through, or a fenced block handed to renderer.code
RECURSIVE Marked(_)
Marked(md) ==
    IF md = <<>> THEN <<>>
    ELSE (CASE Head(md).kind = "text" -> <<Mk("<p>text</p>")>>
            [] Head(md).kind = "ph" -> <<Placeholder(Head(md).n)>>
            [] Head(md).kind = "mermaid" -> RendererCode(FenceToken("mermaid", Head(md).code)))
         \o Marked(Tail(md))

\* html.replace(mermaidPlaceholderRegex, ...): each START...END pair becomes
\* `<pre><code>mermaid\n${code}</code></pre>` (a function replacement: the
\* code is inserted as it is)
MermaidFallback(html) ==
    [k \in 1..Len(html) |->
        IF html[k] = Mk("<!--MERMAID_BLOCK_PLACEHOLDER_START-->") THEN Mk("<pre><code>mermaid\n")
        ELSE IF html[k] = Mk("<!--MERMAID_BLOCK_PLACEHOLDER_END-->") THEN Mk("</code></pre>")
        ELSE html[k]]

\* the html convert returns when nothing throws
ConvertHtml(processedMarkdown) == Cleanup(MermaidFallback(Marked(processedMarkdown)))

\* the source text as characters, for the fallback of convert
RECURSIVE RawText(_)
RawText(md) ==
    IF md = <<>> THEN <<>>
    ELSE (IF Head(md).kind = "mermaid" THEN FenceToken("mermaid", Head(md).code).raw
          ELSE <<Mk("text")>>)
         \o RawText(Tail(md))

\* the html of the catch branch: `<p>${markdown.replace(/\n/g, '<br />')}</p>`
FallbackHtml(markdown) ==
    LET raw == RawText(markdown)
        flat == [k \in 1..Len(raw) |-> IF raw[k] = Ch("\n") THEN Mk("<br />") ELSE raw[k]]
    IN <<Mk("<p>")>> \o flat \o <<Mk("</p>")>>

----------------------------------------------------------------------------
(* The publish pipeline: main.ts over ConfluenceAPI *)

\* the pages the store holds at the start, and the id it gives a created page
PageIds == {"p1", "p2"}

NewPageId == "p3"

SpaceKeys == {"DOC"}

\* the file names of two diagrams, and what the store keeps attachments under
FileNames == {"mermaid-0.svg", "mermaid-1.svg"}

AttachmentKeys == (PageIds \cup {NewPageId}) \X FileNames

NewTitle == "Note"

\* the code of the diagram blocks: plain text, and text holding "$&"
Codes == {<<Ch("g")>>, <<Ch("$"), Ch("&")>>, <<Ch("$"), Apostrophe>>}

Blocks == {TextBlock} \cup {MermaidBlock(c \o <<Ch("\n")>>) : c \in Codes}

Docs == UNION {[1..k -> Blocks] : k \in 0..MaxBlocks}

Svgs == {"", "<svg>"}

\* error messages
ErrPageId == "Page ID is required"

ErrFetch == "Failed to fetch page: 404"

ErrUpdate == "Failed to update page: 409"

ErrNetwork == "Network error"

ErrCreate == "Failed to create page: 400"

ErrUpload == "Failed to upload attachment"

ErrSave == "saveData failed"

ErrClipboard == "writeText failed"

ErrBasic == "Username and API token/password are required for Basic authentication"

ErrToken == "API token not configured"

ErrBaseUrl == "Base URL not configured"

\* settings.baseUrl and settings.apiToken when they are set
BaseUrl == "https://confluence.mycompany.com"

ApiToken == "token"

\* getHeaders(): the message of the error it throws, "" when it returns headers
\* (getAuthToken returns settings.apiToken on both of its paths)
GetHeaders(s) ==
    LET token == s.apiToken
    IN IF s.authType = "basic"
       THEN IF s.username = "" \/ token = "" THEN ErrBasic ELSE ""
       ELSE IF token = "" THEN ErrToken ELSE ""

\* the settings of a plugin that has been configured for bearer authentication
ConfiguredSettings ==
    [lastPageId : {""}, defaultSpaceKey : {""}, enableMermaid : BOOLEAN,
     baseUrl : {BaseUrl}, apiToken : {ApiToken}, username : {""},
     authType : {"bearer"}, useEnvironmentToken : {FALSE}]

\* every way of filling in, or not, the connection settings
AnySettings ==
    [lastPageId : {""}, defaultSpaceKey : {""}, enableMermaid : BOOLEAN,
     baseUrl : {"", BaseUrl}, apiToken : {"", ApiToken}, username : {"", "user"},
     authType : {"bearer", "basic"}, useEnvironmentToken : BOOLEAN]

Call(call, id, ord, phase, body, res) ==
    [call |-> call, id |-> id, ord |-> ord, phase |-> phase, body |-> body, res |-> res]

\* a request of updatePage: for a PUT the version number and title it sends, for
\* a GET the ones the response holds
Req(method, id, number, title, resp) ==
    [method |-> method, id |-> id, number |-> number, title |-> title, resp |-> resp]

Notice(kind, msg) == [kind |-> kind, msg |-> msg]

\* `${error.message || 'Unknown error'}`
NoticeText(msg) == IF msg = "" THEN "Unknown error" ELSE msg

\* the result of the call that is running (the last one of the log)
Returned(res) == [calls EXCEPT ![Len(calls)].res = res]

\* the test written as `if (mermaidData)`: an empty list passes it
HasDiagramsTruthy(md) == ~md.null

\* if (mermaidData && mermaidData.length > 0)
HasDiagrams(md) == ~md.null /\ Len(md.list) > 0

\* this.converter.getMermaidRenderer()
GetMermaidRenderer == converterMermaid

\* the fetched version sent back as it is
NewVersionSame(number) == number

\* const newVersion = currentPage.version.number + 1
NewVersion(number) == number + 1

\* const pageTitle = title || currentPage.title
PageTitle(title, current) == IF title /= "" THEN title ELSE current

\* the loop running from the last item to the first
NextItemReversed(list, i) == list[Len(list) - i]

\* for (const item of mermaidData): the item of turn i (from 0)
NextItem(list, i) == list[i + 1]

\* the try/catch around uploadAttachment catches whatever the call throws
AttachErrorCaught == TRUE

\* a catch block that closes the modal and shows nothing
CatchSilent(msg) ==
    /\ pc' = "Failed"
    /\ modalOpen' = FALSE
    /\ notices' = notices

\* a catch block around the first publish only: the action goes on to the
\* attachments of a document with diagrams
CatchAndGoOn(msg) ==
    /\ pc' = IF upd.phase = "initial" /\ HasDiagrams(mermaidData) THEN "Resolving" ELSE "Failed"
    /\ modalOpen' = FALSE
    /\ notices' = Append(notices, Notice("failure", NoticeText(msg)))

\* the catch block of performUpload / performCreate
Catch(msg) ==
    /\ pc' = "Failed"
    /\ modalOpen' = FALSE
    /\ notices' = Append(notices, Notice("failure", NoticeText(msg)))

\* where an action goes when its first publish call has returned
AfterInitialPublish ==
    IF HasDiagrams(mermaidData)
    THEN /\ renderer' = GetMermaidRenderer
         /\ pc' = IF ~GetMermaidRenderer THEN "SaveSettings"
                  ELSE IF Len(mermaidData.list) = 0 THEN "UpdatePage"
                  ELSE "Resolving"
    ELSE /\ renderer' = renderer
         /\ pc' = "SaveSettings"

\* the two pure-function specifications at rest
LIdle == lpc = "off" /\ lines = <<>> /\ listStack = <<>> /\ result = <<>>

CIdle == cpc = "off" /\ codeText = <<>> /\ codeLang = "" /\ cleaned = <<>>

TIdle == tpc = "off" /\ ti = 0 /\ inTable = FALSE

MIdle ==
    /\ mpc = "off"
    /\ markdownArg = <<>>
    /\ content = <<>>
    /\ codeBlocks = <<>>
    /\ codeBlockCounter = 0
    /\ runs = 0

\* the state of the specifications of the converters, which the pipeline
\* leaves alone; the attachments of the store are followed in SpecApi only
Aside == UNCHANGED <<lvars, cvars, tvars, mvars, attachments>>

PInitWith(S) ==
    /\ pc = "Idle"
    /\ op = "none"
    /\ src = <<>>
    /\ spaceKey = ""
    /\ running = FALSE
    /\ pageId = ""
    /\ mermaidData = NullData
    /\ processed = <<>>
    /\ rendering = <<>>
    /\ finalHtml = <<>>
    /\ idx = 0
    /\ renderer = FALSE
    /\ upd = [phase |-> "initial", version |-> 0, title |-> ""]
    /\ calls = <<>>
    /\ reqs = <<>>
    /\ store = [p \in PageIds \cup {NewPageId} |->
                  IF p = "p1" THEN [version |-> 1, title |-> "One"]
                  ELSE IF p = "p2" THEN [version |-> 2, title |-> "Two"]
                  ELSE [version |-> 0, title |-> ""]]
    /\ settings \in S
    /\ settings0 = settings
    /\ converterMermaid = settings.enableMermaid
    /\ notices = <<>>
    /\ modalOpen = FALSE

\* a store without attachments
NoAttachments == attachments = [k \in AttachmentKeys |-> 0]

PInit == PInitWith(ConfiguredSettings) /\ NoAttachments

\* performUpload(pageId, markdownContent, title), up to the call of convert
StartUpload(p, d) ==
    /\ pc = "Idle"
    /\ pc' = "Converting"
    /\ op' = "upload"
    /\ src' = d
    /\ pageId' = p
    /\ processed' = d
    /\ running' = converterMermaid
    /\ modalOpen' = TRUE
    /\ UNCHANGED <<spaceKey, mermaidData, rendering, finalHtml, idx, renderer, upd, calls,
                   reqs, store, settings, settings0, converterMermaid, notices>>
    /\ Aside

\* performCreate(spaceKey, title, markdownContent, parentId), up to the call of convert
StartCreate(k, d) ==
    /\ pc = "Idle"
    /\ pc' = "Converting"
    /\ op' = "create"
    /\ src' = d
    /\ spaceKey' = k
    /\ processed' = d
    /\ running' = converterMermaid
    /\ modalOpen' = TRUE
    /\ UNCHANGED <<pageId, mermaidData, rendering, finalHtml, idx, renderer, upd, calls,
                   reqs, store, settings, settings0, converterMermaid, notices>>
    /\ Aside
\* a convert that processes the diagram blocks whatever enableMermaid says
RenderStepUnguarded(svg) ==
    /\ pc = "Converting"
    /\ Len(rendering) < Len(Matches(src))
    /\ LET index == Len(rendering)
           m == Matches(src)[index + 1]
       IN /\ rendering' = Append(rendering, Item(index, svg, m.code))
          /\ processed' = ReplaceBlock(processed, m.fullMatch, PlaceholderBlock(index))
          /\ calls' = Append(calls, Call("render", "", index, "convert", m.code,
                                         IF svg = "" THEN "null" ELSE "ok"))
    /\ UNCHANGED <<pc, op, src, spaceKey, running, pageId, mermaidData, finalHtml, idx,
                   renderer, upd, reqs, store, settings, settings0, converterMermaid,
                   notices, modalOpen>>
    /\ Aside

\* one turn of the loop of processMermaidBlocks: render the next match, record
\* it, put the placeholder in its place
RenderStep(svg) ==
    /\ pc = "Converting"
    /\ running
    /\ Len(rendering) < Len(Matches(src))
    /\ LET index == Len(rendering)
           m == Matches(src)[index + 1]
       IN /\ rendering' = Append(rendering, Item(index, svg, m.code))
          /\ processed' = ReplaceBlock(processed, m.fullMatch, PlaceholderBlock(index))
          /\ calls' = Append(calls, Call("render", "", index, "convert", m.code,
                                         IF svg = "" THEN "null" ELSE "ok"))
    /\ UNCHANGED <<pc, op, src, spaceKey, running, pageId, mermaidData, finalHtml, idx,
                   renderer, upd, reqs, store, settings, settings0, converterMermaid,
                   notices, modalOpen>>
    /\ Aside

\* a convert without the catch block: the error reaches the caller's catch
ConvertFinishThrows(ok) ==
    /\ pc = "Converting"
    /\ running => Len(rendering) = Len(Matches(src))
    /\ IF ok
       THEN /\ mermaidData' = IF running THEN Data(rendering) ELSE NullData
            /\ finalHtml' = ConvertHtml(processed)
            /\ pc' = IF op = "upload" THEN "UpdatePage" ELSE "CreatePage"
            /\ UNCHANGED <<notices, modalOpen>>
       ELSE /\ Catch(ErrUpdate)
            /\ UNCHANGED <<mermaidData, finalHtml>>
    /\ UNCHANGED <<op, src, spaceKey, running, pageId, processed, rendering, idx, renderer,
                   upd, calls, reqs, store, settings, settings0, converterMermaid>>
    /\ Aside

\* the rest of convert (marked and the clean-up, or the catch branch when
\* marked throws), and `let finalHtml = html`
ConvertFinish(ok) ==
    /\ pc = "Converting"
    /\ running => Len(rendering) = Len(Matches(src))
    /\ mermaidData' = IF ok /\ running THEN Data(rendering) ELSE NullData
    /\ finalHtml' = IF ok THEN ConvertHtml(processed) ELSE FallbackHtml(src)
    /\ pc' = IF op = "upload" THEN "UpdatePage" ELSE "CreatePage"
    /\ UNCHANGED <<op, src, spaceKey, running, pageId, processed, rendering, idx, renderer,
                   upd, calls, reqs, store, settings, settings0, converterMermaid, notices,
                   modalOpen>>
    /\ Aside

\* updatePage(pageId, finalHtml), first half: the check of the id and getPage
UpdateFetch(resp) ==
    /\ pc = "UpdatePage"
    /\ resp = "ok" => pageId /= "" /\ store[pageId].version > 0 /\ settings.baseUrl /= ""
    /\ IF pageId = ""
       THEN /\ calls' = Append(calls, Call("updatePage", pageId, -1, upd.phase, finalHtml, ErrPageId))
            /\ Catch(ErrPageId)
            /\ UNCHANGED <<upd, reqs>>
       ELSE IF GetHeaders(settings) /= ""
       THEN /\ calls' = Append(calls, Call("updatePage", pageId, -1, upd.phase, finalHtml,
                                           GetHeaders(settings)))
            /\ Catch(GetHeaders(settings))
            /\ UNCHANGED <<upd, reqs>>
       ELSE /\ reqs' = Append(reqs, IF resp = "ok"
                                     THEN Req("GET", pageId, store[pageId].version,
                                              store[pageId].title, resp)
                                     ELSE Req("GET", pageId, 0, "", resp))
            /\ IF resp = "ok"
               THEN /\ calls' = Append(calls, Call("updatePage", pageId, -1, upd.phase, finalHtml, "pending"))
                    /\ upd' = [upd EXCEPT !.version = store[pageId].version,
                                          !.title = store[pageId].title]
                    /\ pc' = "UpdatePut"
                    /\ UNCHANGED <<notices, modalOpen>>
               ELSE /\ calls' = Append(calls, Call("updatePage", pageId, -1, upd.phase, finalHtml, ErrFetch))
                    /\ Catch(ErrFetch)
                    /\ UNCHANGED upd
    /\ UNCHANGED <<op, src, spaceKey, running, pageId, mermaidData, processed, rendering,
                   finalHtml, idx, renderer, store, settings, settings0, converterMermaid>>
    /\ Aside

\* updatePage, second half: the PUT with the new version, and what follows
\* the call in performUpload / performCreate
UpdatePut(resp) ==
    /\ pc = "UpdatePut"
    /\ LET number == NewVersion(upd.version)
           title == PageTitle("", upd.title)
       IN /\ reqs' = Append(reqs, Req("PUT", pageId, number, title, resp))
          /\ IF resp = "ok"
             THEN /\ store' = [store EXCEPT ![pageId] = [version |-> number, title |-> title]]
                  /\ settings' = [settings EXCEPT !.lastPageId = pageId]
                  /\ calls' = Returned("ok")
                  /\ IF upd.phase = "initial"
                     THEN AfterInitialPublish
                     ELSE pc' = "SaveSettings" /\ renderer' = renderer
                  /\ UNCHANGED <<notices, modalOpen>>
             ELSE /\ calls' = Returned(IF resp = "network" THEN ErrNetwork ELSE ErrUpdate)
                  /\ Catch(IF resp = "network" THEN ErrNetwork ELSE ErrUpdate)
                  /\ UNCHANGED <<store, settings, renderer>>
    /\ upd' = [upd EXCEPT !.phase = "final"]
    /\ UNCHANGED <<op, src, spaceKey, running, pageId, mermaidData, processed, rendering,
                   finalHtml, idx, settings0, converterMermaid>>
    /\ Aside

\* createPage(spaceKey, title, finalHtml, parentId) and what follows the call
CreatePost(resp) ==
    /\ pc = "CreatePage"
    /\ resp = "ok" => settings.baseUrl /= ""
    /\ IF GetHeaders(settings) /= ""
       THEN /\ calls' = Append(calls, Call("createPage", "", -1, "initial", finalHtml,
                                           GetHeaders(settings)))
            /\ Catch(GetHeaders(settings))
            /\ UNCHANGED <<store, pageId, renderer, reqs>>
       ELSE /\ reqs' = Append(reqs, Req("POST", "", 0, NewTitle, resp))
            /\ IF resp = "ok"
               THEN /\ calls' = Append(calls, Call("createPage", NewPageId, -1, "initial", finalHtml, "ok"))
                    /\ store' = [store EXCEPT ![NewPageId] = [version |-> 1, title |-> NewTitle]]
                    /\ pageId' = NewPageId
                    /\ AfterInitialPublish
                    /\ UNCHANGED <<notices, modalOpen>>
               ELSE /\ calls' = Append(calls, Call("createPage", "", -1, "initial", finalHtml, ErrCreate))
                    /\ Catch(ErrCreate)
                    /\ UNCHANGED <<store, pageId, renderer>>
    /\ upd' = [upd EXCEPT !.phase = "final"]
    /\ UNCHANGED <<op, src, spaceKey, running, mermaidData, processed, rendering, finalHtml,
                   idx, settings, settings0, converterMermaid>>
    /\ Aside

\* a loop that stays at the item it has handled
AdvanceStuck ==
    /\ idx' = idx
    /\ pc' = "Resolving"

\* the for-loop has handled one more item; after the last one comes the
\* update of the page with the resolved document
Advance ==
    /\ idx' = idx + 1
    /\ pc' = IF idx + 1 = Len(mermaidData.list) THEN "UpdatePage" ELSE "Resolving"

\* a render result is taken for an svg whatever it holds
AnySvg(item) == TRUE

\* if (item.svg): the render of the item returned a non-empty string
HasSvg(item) == item.svg /= ""

\* one turn of the for-loop for an item with an svg: uploadAttachment, then the
\* image reference, or the code block when the upload failed
ResolveUpload(resp) ==
    /\ pc = "Resolving"
    /\ LET item == NextItem(mermaidData.list, idx)
           filename == Filename(item.index)
       IN /\ HasSvg(item)
          /\ calls' = Append(calls, Call("uploadAttachment", pageId, item.index, "resolve", <<>>,
                                         IF resp = "ok" THEN "ok" ELSE ErrUpload))
          /\ IF resp = "ok"
             THEN /\ finalHtml' = ReplaceFirst(finalHtml, Placeholder(item.index),
                                               GenerateConfluenceMarkup(filename, item.code))
                  /\ Advance
                  /\ UNCHANGED <<notices, modalOpen>>
             ELSE IF AttachErrorCaught
             THEN /\ finalHtml' = ReplaceFirst(finalHtml, Placeholder(item.index),
                                               GenerateConfluenceMarkup(NoFile, item.code))
                  /\ Advance
                  /\ UNCHANGED <<notices, modalOpen>>
             ELSE /\ Catch(ErrUpload)
                  /\ UNCHANGED <<finalHtml, idx>>
    /\ UNCHANGED <<op, src, spaceKey, running, pageId, mermaidData, processed, rendering,
                   renderer, upd, reqs, store, settings, settings0, converterMermaid>>
    /\ Aside

\* one turn of the for-loop for an item without svg: the code block
ResolveNoSvg ==
    /\ pc = "Resolving"
    /\ LET item == NextItem(mermaidData.list, idx)
       IN /\ ~HasSvg(item)
          /\ finalHtml' = ReplaceFirst(finalHtml, Placeholder(item.index),
                                       GenerateConfluenceMarkup(NoFile, item.code))
    /\ Advance
    /\ UNCHANGED <<op, src, spaceKey, running, pageId, mermaidData, processed, rendering,
                   renderer, upd, calls, reqs, store, settings, settings0, converterMermaid,
                   notices, modalOpen>>
    /\ Aside

\* a performCreate that stored the page id only
RememberPageOnly(s, operation, id, key) == [s EXCEPT !.lastPageId = id]

\* this.settings.lastPageId = pageId, and in performCreate
\* this.settings.defaultSpaceKey = spaceKey
Remember(s, operation, id, key) ==
    IF operation = "create"
    THEN [s EXCEPT !.lastPageId = id, !.defaultSpaceKey = key]
    ELSE [s EXCEPT !.lastPageId = id]

\* the assignments to this.settings, saveSettings(), progressModal.close() and
\* the success Notice
SaveSettings(ok) ==
    /\ pc = "SaveSettings"
    /\ settings' = Remember(settings, op, pageId, spaceKey)
    /\ IF ok
       THEN /\ converterMermaid' = settings.enableMermaid
            /\ modalOpen' = FALSE
            /\ notices' = Append(notices, Notice("success", "Page published"))
            /\ pc' = "Clipboard"
       ELSE /\ Catch(ErrSave)
            /\ UNCHANGED converterMermaid
    /\ UNCHANGED <<op, src, spaceKey, running, pageId, mermaidData, processed, rendering,
                   finalHtml, idx, renderer, upd, calls, reqs, store, settings0>>
    /\ Aside

\* navigator.clipboard.writeText(pageUrl) and the Notice that follows it
Clipboard(ok) ==
    /\ pc = "Clipboard"
    /\ IF ok
       THEN /\ notices' = Append(notices, Notice("info", "Page URL copied to clipboard"))
            /\ pc' = "Done"
            /\ UNCHANGED modalOpen
       ELSE Catch(ErrClipboard)
    /\ UNCHANGED <<op, src, spaceKey, running, pageId, mermaidData, processed, rendering,
                   finalHtml, idx, renderer, upd, calls, reqs, store, settings, settings0,
                   converterMermaid>>
    /\ Aside

Next ==
    \/ \E p \in PageIds, d \in Docs : StartUpload(p, d)
    \/ \E k \in SpaceKeys, d \in Docs : StartCreate(k, d)
    \/ \E svg \in Svgs : RenderStep(svg)
    \/ \E ok \in BOOLEAN : ConvertFinish(ok)
    \/ \E resp \in {"ok", "fail"} : UpdateFetch(resp)
    \/ \E resp \in {"ok", "conflict", "network"} : UpdatePut(resp)
    \/ \E resp \in {"ok", "fail"} : CreatePost(resp)
    \/ \E resp \in {"ok", "fail"} : ResolveUpload(resp)
    \/ ResolveNoSvg
    \/ \E ok \in BOOLEAN : SaveSettings(ok)
    \/ \E ok \in BOOLEAN : Clipboard(ok)

Init == PInit /\ LIdle /\ CIdle /\ TIdle /\ MIdle

Spec == Init /\ [][Next]_vars

----------------------------------------------------------------------------
(* The pipeline when every call it awaits returns or fails *)

\* the documents of this specification: at most two blocks
LiveDocs == {d \in Docs : Len(d) <= 2}

NextLive ==
    \/ \E p \in PageIds, d \in LiveDocs : StartUpload(p, d)
    \/ \E k \in SpaceKeys, d \in LiveDocs : StartCreate(k, d)
    \/ \E svg \in Svgs : RenderStep(svg)
    \/ \E ok \in BOOLEAN : ConvertFinish(ok)
    \/ \E resp \in {"ok", "fail"} : UpdateFetch(resp)
    \/ \E resp \in {"ok", "conflict", "network"} : UpdatePut(resp)
    \/ \E resp \in {"ok", "fail"} : CreatePost(resp)
    \/ \E resp \in {"ok", "fail"} : ResolveUpload(resp)
    \/ ResolveNoSvg
    \/ \E ok \in BOOLEAN : SaveSettings(ok)
    \/ \E ok \in BOOLEAN : Clipboard(ok)

InitLive == PInit /\ LIdle /\ CIdle /\ TIdle /\ MIdle

\* Every await of performUpload / performCreate is on a renderer call, a
\* remote-store call, saveSettings or the clipboard; when each of them settles,
\* the event loop runs the continuation: the step that is enabled is taken
SpecLive == InitLive /\ [][NextLive]_vars /\ WF_vars(NextLive)

----------------------------------------------------------------------------
(* The two commands, with any settings *)

\* the documents of this specification: at most one block
ConfigDocs == {d \in Docs : Len(d) <= 1}

\* new Notice(...); return
Refuse(msg) ==
    /\ pc' = "Failed"
    /\ notices' = Append(notices, Notice("failure", msg))
    /\ UNCHANGED <<op, src, spaceKey, running, pageId, mermaidData, processed, rendering,
                   finalHtml, idx, renderer, upd, calls, reqs, store, settings, settings0,
                   converterMermaid, modalOpen>>
    /\ Aside

\* uploadContent: the two tests of the settings, then the PageIdModal whose
\* submission runs performUpload
UploadContent(p, d) ==
    IF settings.apiToken = "" /\ ~settings.useEnvironmentToken
    THEN pc = "Idle" /\ Refuse(ErrToken)
    ELSE IF settings.baseUrl = ""
    THEN pc = "Idle" /\ Refuse(ErrBaseUrl)
    ELSE StartUpload(p, d)

\* createNewPage: the CreatePageModal whose submission runs performCreate
CreateNewPage(k, d) == StartCreate(k, d)

NextConfig ==
    \/ \E p \in PageIds, d \in ConfigDocs : UploadContent(p, d)
    \/ \E k \in SpaceKeys, d \in ConfigDocs : CreateNewPage(k, d)
    \/ \E svg \in Svgs : RenderStep(svg)
    \/ \E ok \in BOOLEAN : ConvertFinish(ok)
    \/ \E resp \in {"ok", "fail"} : UpdateFetch(resp)
    \/ \E resp \in {"ok", "conflict", "network"} : UpdatePut(resp)
    \/ \E resp \in {"ok", "fail"} : CreatePost(resp)
    \/ \E resp \in {"ok", "fail"} : ResolveUpload(resp)
    \/ ResolveNoSvg
    \/ \E ok \in BOOLEAN : SaveSettings(ok)
    \/ \E ok \in BOOLEAN : Clipboard(ok)

InitConfig == PInitWith(AnySettings) /\ NoAttachments /\ LIdle /\ CIdle /\ TIdle /\ MIdle

SpecConfig == InitConfig /\ [][NextConfig]_vars

----------------------------------------------------------------------------
(* ConfluenceAPI, its methods called one after the other with any arguments *)

ErrSpaceTitle == "Space key and title are required"

ErrAttachArgs == "Page ID, file name, and content are required"

ErrDelete == "Failed to delete existing attachment"

ErrLegacy == "XSRF check failed on modern API, old endpoint also failed"

ErrNoAttachment == "No attachment created"

ErrForbidden == "403 Forbidden: You don't have permission to add attachments to page"

\* the arguments of the calls: the empty string and one other value
ApiPageIds == {"", "p1"}

ApiSpaceKeys == {"", "DOC"}

ApiTitles == {"", NewTitle}

ApiFileNames == {"", "mermaid-0.svg"}

ApiContents == {"", "<svg>"}

\* if (!pageId)
MissingPageId(id) == id = ""

\* if (!spaceKey || !title)
MissingSpaceOrTitle(k, t) == k = "" \/ t = ""

\* a test that leaves out the content
MissingAttachArgsButContent(id, name, data) == id = "" \/ name = ""

\* if (!pageId || !fileName || !content)
MissingAttachArgs(id, name, data) == id = "" \/ name = "" \/ data = ""

\* the call returns or throws without having issued a request
ApiLocal(call, id, args, res) ==
    /\ calls' = Append(calls, Call(call, id, -1, "api", args, res))
    /\ UNCHANGED <<reqs, store, settings, attachments>>

\* the frame of a method of ConfluenceAPI
ApiFrame ==
    /\ UNCHANGED <<pc, op, src, spaceKey, running, pageId, mermaidData, processed, rendering,
                   finalHtml, idx, renderer, upd, settings0, converterMermaid, notices,
                   modalOpen>>
    /\ UNCHANGED <<lvars, cvars, tvars, mvars>>

\* getPage(pageId)
GetPage(id, resp) ==
    /\ Len(calls) < MaxCalls
    /\ UNCHANGED attachments
    /\ resp = "ok" => id /= "" /\ store[id].version > 0
    /\ IF MissingPageId(id) THEN ApiLocal("getPage", id, <<>>, ErrPageId)
       ELSE IF GetHeaders(settings) /= ""
       THEN ApiLocal("getPage", id, <<>>, GetHeaders(settings))
       ELSE /\ reqs' = Append(reqs, IF resp = "ok"
                                     THEN Req("GET", id, store[id].version, store[id].title, resp)
                                     ELSE Req("GET", id, 0, "", resp))
            /\ calls' = Append(calls, Call("getPage", id, -1, "api", <<>>,
                                           IF resp = "ok" THEN "ok" ELSE ErrFetch))
            /\ UNCHANGED <<store, settings>>
    /\ ApiFrame

\* updatePage(pageId, content): the test of the id, getPage, the PUT and
\* this.settings.lastPageId = pageId
UpdatePage(id, get, put) ==
    /\ Len(calls) < MaxCalls
    /\ UNCHANGED attachments
    /\ get = "ok" => id /= "" /\ store[id].version > 0
    /\ IF MissingPageId(id) THEN ApiLocal("updatePage", id, <<>>, ErrPageId)
       ELSE IF GetHeaders(settings) /= ""
       THEN ApiLocal("updatePage", id, <<>>, GetHeaders(settings))
       ELSE IF get /= "ok"
       THEN /\ reqs' = Append(reqs, Req("GET", id, 0, "", get))
            /\ calls' = Append(calls, Call("updatePage", id, -1, "api", <<>>, ErrFetch))
            /\ UNCHANGED <<store, settings>>
       ELSE LET number == NewVersion(store[id].version)
                title == PageTitle("", store[id].title)
            IN /\ reqs' = reqs \o <<Req("GET", id, store[id].version, store[id].title, "ok"),
                                     Req("PUT", id, number, title, put)>>
               /\ IF put = "ok"
                  THEN /\ store' = [store EXCEPT ![id] = [version |-> number, title |-> title]]
                       /\ settings' = [settings EXCEPT !.lastPageId = id]
                       /\ calls' = Append(calls, Call("updatePage", id, -1, "api", <<>>, "ok"))
                  ELSE /\ calls' = Append(calls, Call("updatePage", id, -1, "api", <<>>,
                                                      IF put = "network" THEN ErrNetwork
                                                      ELSE ErrUpdate))
                       /\ UNCHANGED <<store, settings>>
    /\ ApiFrame

\* createPage(spaceKey, title, content)
CreatePage(k, t, resp) ==
    /\ Len(calls) < MaxCalls
    /\ UNCHANGED attachments
    /\ resp = "ok" => store[NewPageId].version = 0
    /\ IF MissingSpaceOrTitle(k, t) THEN ApiLocal("createPage", "", <<k, t>>, ErrSpaceTitle)
       ELSE IF GetHeaders(settings) /= ""
       THEN ApiLocal("createPage", "", <<k, t>>, GetHeaders(settings))
       ELSE /\ reqs' = Append(reqs, Req("POST", "", 0, t, resp))
            /\ IF resp = "ok"
               THEN /\ store' = [store EXCEPT ![NewPageId] = [version |-> 1, title |-> t]]
                    /\ calls' = Append(calls, Call("createPage", NewPageId, -1, "api", <<k, t>>, "ok"))
               ELSE /\ calls' = Append(calls, Call("createPage", "", -1, "api", <<k, t>>, ErrCreate))
                    /\ UNCHANGED store
            /\ UNCHANGED settings
    /\ ApiFrame

\* a request of uploadAttachment
AttachmentReq(kind, id, name, resp) == Req(kind, id, 0, name, resp)

\* an uploadAttachment that posts without deleting what the check found
AttachmentRequestsNoDelete(id, name, check, del, post, legacy) ==
    <<AttachmentReq("GET attachment", id, name, check)>>
    \o (IF check = "throws" THEN <<>>
        ELSE <<AttachmentReq("POST attachment", id, name, post)>>
             \o (IF post = "xsrf"
                 THEN <<AttachmentReq("POST upload.action", id, name, legacy)>>
                 ELSE <<>>))

\* the requests of uploadAttachment, with the answer to each: the check for an
\* attachment of that name ("found", "none", "fail" for a status other than
\* 200), the DELETE of the one found, the POST ("empty" for a 2xx answer
\* without results, "forbidden" for a 403), and the POST to the drag-and-drop endpoint after
\* 'XSRF check failed'; "throws" is a requestUrl that rejects
AttachmentRequests(id, name, check, del, post, legacy) ==
    <<AttachmentReq("GET attachment", id, name, check)>>
    \o (IF check = "throws" THEN <<>>
        ELSE (IF check = "found"
              THEN <<AttachmentReq("DELETE attachment", id, name, del)>> ELSE <<>>)
             \o (IF check = "found" /\ del /= "ok" THEN <<>>
                 ELSE <<AttachmentReq("POST attachment", id, name, post)>>
                      \o (IF post = "xsrf"
                          THEN <<AttachmentReq("POST upload.action", id, name, legacy)>>
                          ELSE <<>>)))

\* an uploadAttachment that takes any 2xx answer to its POST for an upload
AttachmentResultAny2xx(check, del, post, legacy) ==
    IF check = "throws" THEN ErrNetwork
    ELSE IF check = "found" /\ del /= "ok" THEN ErrDelete
    ELSE IF post = "throws" THEN ErrNetwork
    ELSE IF post = "xsrf" THEN (IF legacy = "ok" THEN "ok" ELSE ErrLegacy)
    ELSE IF post = "forbidden" THEN ErrForbidden
    ELSE IF post \in {"ok", "empty"} THEN "ok"
    ELSE ErrUpload

\* what uploadAttachment returns ("ok" for the file name) or throws
AttachmentResult(check, del, post, legacy) ==
    IF check = "throws" THEN ErrNetwork
    ELSE IF check = "found" /\ del /= "ok" THEN ErrDelete
    ELSE IF post = "throws" THEN ErrNetwork
    ELSE IF post = "xsrf" THEN (IF legacy = "ok" THEN "ok" ELSE ErrLegacy)
    ELSE IF post = "forbidden" THEN ErrForbidden
    ELSE IF post = "ok" THEN "ok"
    ELSE IF post = "empty" THEN ErrNoAttachment
    ELSE ErrUpload

\* the request of that kind was made and answered with "ok"
Answered(requests, kind) ==
    \E k \in 1..Len(requests) : requests[k].method = kind /\ requests[k].resp = "ok"

\* The store, as far as the requests depend on it. The check answers what the
\* page holds; a DELETE that succeeds removes the attachment found; a page
\* holds one attachment of a name, so the POST succeeds only when it holds
\* none, and the drag-and-drop endpoint adds a version to the one it holds.
StoreAnswers(held, requests) ==
    LET left == IF Answered(requests, "DELETE attachment") THEN held - 1 ELSE held
    IN /\ requests[1].resp = "found" => held > 0
       /\ requests[1].resp = "none" => held = 0
       /\ Answered(requests, "POST attachment") => left = 0

StoredAfter(held, requests) ==
    LET left == IF Answered(requests, "DELETE attachment") THEN held - 1 ELSE held
    IN IF Answered(requests, "POST attachment") THEN left + 1
       ELSE IF Answered(requests, "POST upload.action") /\ left = 0 THEN 1
       ELSE left

\* the answers to the requests of one call: check, DELETE, POST, drag-and-drop
\* POST; the answer to a request the call does not get to is left at "ok"
AttachmentOutcomes ==
    {o \in {"found", "none", "fail", "throws"} \X {"ok", "fail", "throws"}
            \X {"ok", "empty", "forbidden", "fail", "xsrf", "throws"} \X {"ok", "fail", "throws"} :
        /\ o[1] /= "found" => o[2] = "ok"
        /\ (o[1] = "throws" \/ o[2] /= "ok") => o[3] = "ok"
        /\ o[3] /= "xsrf" => o[4] = "ok"}

\* uploadAttachment(pageId, fileName, content)
UploadAttachment(id, name, data, check, del, post, legacy) ==
    /\ Len(calls) < MaxCalls
    /\ IF MissingAttachArgs(id, name, data)
       THEN ApiLocal("uploadAttachment", id, <<name, data>>, ErrAttachArgs)
       ELSE IF GetHeaders(settings) /= ""
       THEN ApiLocal("uploadAttachment", id, <<name, data>>, GetHeaders(settings))
       ELSE LET requests == AttachmentRequests(id, name, check, del, post, legacy)
            IN /\ StoreAnswers(attachments[<<id, name>>], requests)
               /\ reqs' = reqs \o requests
               /\ attachments' = [attachments EXCEPT
                                     ![<<id, name>>] = StoredAfter(@, requests)]
               /\ calls' = Append(calls, Call("uploadAttachment", id, -1, "api", <<name, data>>,
                                              AttachmentResult(check, del, post, legacy)))
               /\ UNCHANGED <<store, settings>>
    /\ ApiFrame

NextApi ==
    \/ \E id \in ApiPageIds, resp \in {"ok", "fail"} : GetPage(id, resp)
    \/ \E id \in ApiPageIds, get \in {"ok", "fail"}, put \in {"ok", "conflict", "network"} :
          UpdatePage(id, get, put)
    \/ \E k \in ApiSpaceKeys, t \in ApiTitles, resp \in {"ok", "fail"} : CreatePage(k, t, resp)
    \/ \E id \in ApiPageIds, name \in ApiFileNames, data \in ApiContents,
          o \in AttachmentOutcomes :
          UploadAttachment(id, name, data, o[1], o[2], o[3], o[4])

\* a page may hold the attachments of an earlier upload
InitApi ==
    /\ PInitWith(ConfiguredSettings)
    /\ \E held \in {0, 1} :
          attachments = [k \in AttachmentKeys |->
                            IF k = <<"p1", "mermaid-0.svg">> THEN held ELSE 0]
    /\ LIdle /\ CIdle /\ TIdle /\ MIdle

SpecApi == InitApi /\ [][NextApi]_vars

----------------------------------------------------------------------------
(* MarkdownToConfluenceConverter.convertLists *)

\* the pipeline at rest, for the specifications of the pure functions
PIdle ==
    /\ pc = "off"
    /\ op = "none"
    /\ src = <<>>
    /\ spaceKey = ""
    /\ running = FALSE
    /\ pageId = ""
    /\ mermaidData = NullData
    /\ processed = <<>>
    /\ rendering = <<>>
    /\ finalHtml = <<>>
    /\ idx = 0
    /\ renderer = FALSE
    /\ upd = [phase |-> "initial", version |-> 0, title |-> ""]
    /\ calls = <<>>
    /\ reqs = <<>>
    /\ store = [p \in PageIds \cup {NewPageId} |-> [version |-> 0, title |-> ""]]
    /\ settings \in {s \in ConfiguredSettings : s.enableMermaid}
    /\ settings0 = settings
    /\ converterMermaid = TRUE
    /\ notices = <<>>
    /\ modalOpen = FALSE
    /\ NoAttachments

\* A line is what the two patterns of convertLists make of it: an unordered
\* item (/^(\s*)[-*+]\s+(.+)$/), an ordered item (/^(\s*)(\d+)\.\s+(.+)$/),
\* each with indent = spaces.length, or a line that matches neither
ListLines ==
    {[type |-> "none", indent |-> 0]}
    \cup [type : {"ul", "ol"}, indent : 0..MaxIndent]

\* `<${type}>` and `</${type}>`
OpenTag(type) == IF type = "ul" THEN "<ul>" ELSE "<ol>"

CloseTag(type) == IF type = "ul" THEN "</ul>" ELSE "</ol>"

Frame(type, indent) == [type |-> type, indent |-> indent]

Top(stack) == stack[Len(stack)]

Pop(stack) == SubSeq(stack, 1, Len(stack) - 1)

\* the closing tags in the order the lists were opened
CloseAllBottomFirst(stack) == [k \in 1..Len(stack) |-> CloseTag(stack[k].type)]

\* while (listStack.length > 0) { pop; push the closing tag }: the closing
\* tags of all frames, the top one first
RECURSIVE CloseAll(_)
CloseAll(stack) ==
    IF stack = <<>> THEN <<>>
    ELSE <<CloseTag(Top(stack).type)>> \o CloseAll(Pop(stack))

\* a first loop that pops nothing
KeepShallowerNoPop(stack, indent) == stack

\* the first loop of handleListItem: the frames left when every frame deeper
\* than indent has been popped
RECURSIVE KeepShallower(_, _)
KeepShallower(stack, indent) ==
    IF stack /= <<>> /\ Top(stack).indent > indent
    THEN KeepShallower(Pop(stack), indent)
    ELSE stack

\* the list of another type opened without closing the one it replaces
SwitchTypeUnclosed(out, stack, type, indent) ==
    [out |-> out \o <<OpenTag(type)>>, stack |-> Append(Pop(stack), Frame(type, indent))]

\* the `else if` branch of handleListItem: switch list type
SwitchType(out, stack, type, indent) ==
    [out |-> out \o <<CloseTag(Top(stack).type), OpenTag(type)>>,
     stack |-> Append(Pop(stack), Frame(type, indent))]

\* handleListItem(result, listStack, type, indent, text): the new result and stack
HandleListItem(out, stack, type, indent) ==
    LET kept == KeepShallower(stack, indent)
        closed == out \o CloseAll(SubSeq(stack, Len(kept) + 1, Len(stack)))
        opened == IF kept = <<>> \/ Top(kept).indent < indent
                  THEN [out |-> closed \o <<OpenTag(type)>>,
                        stack |-> Append(kept, Frame(type, indent))]
                  ELSE IF Top(kept).type /= type
                  THEN SwitchType(closed, kept, type, indent)
                  ELSE [out |-> closed, stack |-> kept]
    IN [out |-> opened.out \o <<"<li>">>, stack |-> opened.stack]

LInit ==
    /\ lpc = "lines"
    /\ lines = <<>>
    /\ listStack = <<>>
    /\ result = <<>>

\* one turn of `for (const line of lines)`
ListLine(line) ==
    /\ lpc = "lines"
    /\ Len(lines) < MaxLines
    /\ lines' = Append(lines, line)
    /\ IF line.type /= "none"
       THEN LET r == HandleListItem(result, listStack, line.type, line.indent)
            IN result' = r.out /\ listStack' = r.stack
       ELSE /\ result' = result \o CloseAll(listStack) \o <<"line">>
            /\ listStack' = <<>>
    /\ UNCHANGED <<lpc, pvars, cvars, tvars, mvars>>

\* after the loop: close the remaining lists (split always yields a line)
ListEnd ==
    /\ lpc = "lines"
    /\ Len(lines) >= 1
    /\ result' = result \o CloseAll(listStack)
    /\ listStack' = <<>>
    /\ lpc' = "done"
    /\ UNCHANGED <<lines, pvars, cvars, tvars, mvars>>

NextLists ==
    \/ \E line \in ListLines : ListLine(line)
    \/ ListEnd

InitLists == PIdle /\ LInit /\ CIdle /\ TIdle /\ MIdle

SpecLists == InitLists /\ [][NextLists]_vars

----------------------------------------------------------------------------
(* MarkdownToConfluenceConverter.convertTables *)

\* The lines of the model. "|a|" and "|a|b|" match /^\|.*\|$/ only, "|-|"
\* matches /^\|[\s-:|]+\|$/ as well, "text" and the empty line match neither
TableLines == {"|a|", "|a|b|", "|-|", "text", ""}

\* line.match(/^\|.*\|$/)
IsPipeLine(line) == line \in {"|a|", "|a|b|", "|-|"}

\* line.match(/^\|[\s-:|]+\|$/)
IsSeparator(line) == line = "|-|"

\* line.split('|').slice(1, -1).length
NumCells(line) == IF line = "|a|b|" THEN 2 ELSE 1

\* cells.forEach(cell => result.push(...)): one entry per cell; "<th>" and
\* "<td>" stand for `<th>${cell}</th>` and `<td>${cell}</td>`
Cells(tag, line) == [k \in 1..NumCells(line) |-> tag]

\* i + 1 < lines.length && lines[i + 1].match(separator), for the 1-based k
NextIsSeparator(ls, k) == k + 1 <= Len(ls) /\ IsSeparator(ls[k + 1])

\* the header row of the first branch, after `if (!inTable)`
Header(out, line) ==
    out \o <<"<tr>">> \o Cells("<th>", line) \o <<"</tr>", "</thead>", "<tbody>">>

\* one turn of `for (let i = 0; i < lines.length; i++)` at the 1-based k:
\* the next index, inTable and result
TableTurn(ls, k, inT, out) ==
    LET line == ls[k]
    IN IF IsPipeLine(line)
       THEN IF NextIsSeparator(ls, k)
            THEN [i |-> k + 2, inTable |-> TRUE,
                  out |-> Header(IF inT THEN out ELSE out \o <<"<table>", "<thead>">>, line)]
            ELSE IF inT
            THEN [i |-> k + 1, inTable |-> TRUE,
                  out |-> out \o <<"<tr>">> \o Cells("<td>", line) \o <<"</tr>">>]
            ELSE [i |-> k + 1, inTable |-> FALSE, out |-> out \o <<line>>]
       ELSE [i |-> k + 1, inTable |-> FALSE,
             out |-> (IF inT THEN out \o <<"</tbody>", "</table>">> ELSE out) \o <<line>>]

\* after the loop: `if (inTable)`
TableClose(inT, out) == IF inT THEN out \o <<"</tbody>", "</table>">> ELSE out

\* content.split('\n') always yields a line
TInit ==
    /\ tpc = "lines"
    /\ ti = 1
    /\ inTable = FALSE
    /\ lines \in UNION {[1..n -> TableLines] : n \in 1..MaxLines}
    /\ result = <<>>
    /\ lpc = "off"
    /\ listStack = <<>>

TableLine ==
    /\ tpc = "lines"
    /\ ti <= Len(lines)
    /\ LET r == TableTurn(lines, ti, inTable, result)
       IN /\ ti' = r.i
          /\ inTable' = r.inTable
          /\ result' = r.out
    /\ UNCHANGED <<tpc, lines, lpc, listStack, pvars, cvars, mvars>>

TableEnd ==
    /\ tpc = "lines"
    /\ ti > Len(lines)
    /\ result' = TableClose(inTable, result)
    /\ tpc' = "done"
    /\ UNCHANGED <<ti, inTable, lines, lpc, listStack, pvars, cvars, mvars>>

NextTables == TableLine \/ TableEnd

InitTables == PIdle /\ TInit /\ CIdle /\ MIdle

SpecTables == InitTables /\ [][NextTables]_vars

----------------------------------------------------------------------------
(* MarkdownToConfluenceConverter.convertMarkdownToConfluence on block lines *)

\* The lines of the model: two headings, three list items, a table row, a
\* separator, the empty line and a plain line. None of them is touched by the
\* rules for emphasis, strikethrough, links, images, rules and blockquotes
FormatLines == {"# T", "## T", "- a", "  - a", "1. a", "|a|", "|-|", "", "text"}

\* the six heading rules, /^#{n}\s+(.+)$/gm -> '<hn>$1</hn>'
Heading(line) ==
    CASE line = "# T" -> "<h1>T</h1>"
      [] line = "## T" -> "<h2>T</h2>"
      [] OTHER -> line

\* the two patterns of convertLists: the kind of item and spaces.length
ListMatch(line) ==
    CASE line = "- a" -> Frame("ul", 0)
      [] line = "  - a" -> Frame("ul", 2)
      [] line = "1. a" -> Frame("ol", 0)
      [] OTHER -> Frame("none", 0)

\* convertLists from line k on; "<li>" stands for `<li>${text}</li>`
RECURSIVE ListsFrom(_, _, _, _)
ListsFrom(ls, k, stack, out) ==
    IF k > Len(ls) THEN out \o CloseAll(stack)
    ELSE LET m == ListMatch(ls[k])
         IN IF m.type /= "none"
            THEN LET r == HandleListItem(out, stack, m.type, m.indent)
                 IN ListsFrom(ls, k + 1, r.stack, r.out)
            ELSE ListsFrom(ls, k + 1, <<>>, out \o CloseAll(stack) \o <<ls[k]>>)

ConvertLists(ls) == ListsFrom(ls, 1, <<>>, <<>>)

\* convertTables from line k on
RECURSIVE TablesFrom(_, _, _, _)
TablesFrom(ls, k, inT, out) ==
    IF k > Len(ls) THEN TableClose(inT, out)
    ELSE LET r == TableTurn(ls, k, inT, out)
         IN TablesFrom(ls, r.i, r.inTable, r.out)

ConvertTables(ls) == TablesFrom(ls, 1, FALSE, <<>>)

\* result.join('\n'): the text as a sequence of pieces, the empty line
\* leaving nothing between its two newlines
RECURSIVE Join(_)
Join(ls) ==
    IF ls = <<>> THEN <<>>
    ELSE LET piece == IF Top(ls) = "" THEN <<>> ELSE <<Top(ls)>>
         IN IF Len(ls) = 1 THEN piece ELSE Join(Pop(ls)) \o <<"\n">> \o piece

\* the number of "\n" pieces from position k on
RECURSIVE RunLen(_, _)
RunLen(text, k) ==
    IF k <= Len(text) /\ text[k] = "\n" THEN 1 + RunLen(text, k + 1) ELSE 0

\* replace(/\n\n+/g, '</p><p>') and then replace(/\n/g, '<br />')
RECURSIVE LineBreaks(_, _)
LineBreaks(text, k) ==
    IF k > Len(text) THEN <<>>
    ELSE LET n == RunLen(text, k)
         IN IF n >= 2 THEN <<"</p>", "<p>">> \o LineBreaks(text, k + n)
            ELSE IF n = 1 THEN <<"<br />">> \o LineBreaks(text, k + 1)
            ELSE <<text[k]>> \o LineBreaks(text, k + 1)

\* piece.startsWith('<'): every piece but a plain line and a line with pipes
StartsWithLt(piece) == piece \notin {"text", "|a|", "|-|"}

\* if (!content.startsWith('<')) content = '<p>' + content + '</p>'
Wrap(text) ==
    IF text /= <<>> /\ StartsWithLt(text[1]) THEN text
    ELSE <<"<p>">> \o text \o <<"</p>">>

IsHeading(piece) == piece \in {"<h1>T</h1>", "<h2>T</h2>"}

\* replace(/<p><\/p>/g, '')
RECURSIVE DropEmptyParagraphs(_, _)
DropEmptyParagraphs(text, k) ==
    IF k > Len(text) THEN <<>>
    ELSE IF k < Len(text) /\ text[k] = "<p>" /\ text[k + 1] = "</p>"
    THEN DropEmptyParagraphs(text, k + 2)
    ELSE <<text[k]>> \o DropEmptyParagraphs(text, k + 1)

\* replace(/<p>(<h[1-6]>)/g, '$1')
RECURSIVE DropParagraphBeforeHeading(_, _)
DropParagraphBeforeHeading(text, k) ==
    IF k > Len(text) THEN <<>>
    ELSE IF k < Len(text) /\ text[k] = "<p>" /\ IsHeading(text[k + 1])
    THEN DropParagraphBeforeHeading(text, k + 1)
    ELSE <<text[k]>> \o DropParagraphBeforeHeading(text, k + 1)

\* replace(/(<\/h[1-6]>)<\/p>/g, '$1')
RECURSIVE DropParagraphAfterHeading(_, _)
DropParagraphAfterHeading(text, k) ==
    IF k > Len(text) THEN <<>>
    ELSE IF k < Len(text) /\ IsHeading(text[k]) /\ text[k + 1] = "</p>"
    THEN <<text[k]>> \o DropParagraphAfterHeading(text, k + 2)
    ELSE <<text[k]>> \o DropParagraphAfterHeading(text, k + 1)

\* convertMarkdownToConfluence(content), content given as its lines
ConvertMarkdownToConfluence(ls) ==
    LET headings == [k \in 1..Len(ls) |-> Heading(ls[k])]
        lists == ConvertLists(headings)
        tables == ConvertTables(lists)
        broken == LineBreaks(Join(tables), 1)
        wrapped == Wrap(broken)
        clean1 == DropEmptyParagraphs(wrapped, 1)
        clean2 == DropParagraphBeforeHeading(clean1, 1)
    IN DropParagraphAfterHeading(clean2, 1)

FInit ==
    /\ mpc = "format"
    /\ lines \in UNION {[1..n -> FormatLines] : n \in 1..MaxLines}
    /\ markdownArg = <<>>
    /\ content = <<>>
    /\ codeBlocks = <<>>
    /\ codeBlockCounter = 0
    /\ runs = 0
    /\ lpc = "off"
    /\ listStack = <<>>
    /\ result = <<>>

Format ==
    /\ mpc = "format"
    /\ content' = ConvertMarkdownToConfluence(lines)
    /\ mpc' = "formatted"
    /\ UNCHANGED <<markdownArg, codeBlocks, codeBlockCounter, runs, lvars, pvars, cvars, tvars>>

NextFormat == Format

InitFormat == PIdle /\ FInit /\ CIdle /\ TIdle

SpecFormat == InitFormat /\ [][NextFormat]_vars

----------------------------------------------------------------------------
(* MarkdownToConfluenceConverter.convert: code blocks and emphasis *)

\* a fenced code block (three backticks, "js", a newline, "x", three
\* backticks) and an inline code span (a backtick, "y", a backtick)
FencedCode == Mk("fenced code js x")

\* a fenced block whose code is the two characters $ and '
FencedDollar == Mk("fenced code js dollar apostrophe")

InlineCode == Mk("inline code y")

\* The markdown of the model: one line put together from a letter, the two
\* emphasis characters, a fenced code block and an inline code span, or from
\* the parts of links and images. On such a line the rules for headings,
\* strikethrough, rules, blockquotes, lists, tables and line breaks change
\* nothing
Pieces == {Ch("a"), Ch("_"), Ch("*"), FencedCode, FencedDollar, InlineCode}

\* The parts of a line with links and images: "!", "[a]", "[]", "(u)" and a
\* letter
LinkParts ==
    {<<Ch("!")>>, <<Ch("["), Ch("a"), Ch("]")>>, <<Ch("["), Ch("]")>>,
     <<Ch("("), Ch("u"), Ch(")")>>, <<Ch("a")>>}

LinkMarkdowns == {Flatten(ps) : ps \in UNION {[1..n -> LinkParts] : n \in 1..MaxPieces}}

Markdowns == UNION {[1..n -> Pieces] : n \in 0..MaxPieces} \cup LinkMarkdowns

\* `__CODEBLOCK_${n}__`, "CODEBLOCK" standing for its nine letters
CodeBlockPlaceholder(n) ==
    <<Ch("_"), Ch("_"), Mk("CODEBLOCK"), Ch("_"), [t |-> "ch", n |-> n, s |-> "digits"],
      Ch("_"), Ch("_")>>

\* createConfluenceCodeBlock(lang || 'text', code) for the fenced block
ConfluenceCodeBlock ==
    <<CodeOpen(LanguageMap("js")), Ch("x"), Ch("\n")>> \o CodeClose

DollarCodeBlock ==
    <<CodeOpen(LanguageMap("js")), Ch("$"), Apostrophe, Ch("\n")>> \o CodeClose

\* `<code>${this.escapeHtml(code)}</code>` for the inline span
InlineCodeBlock == <<Mk("<code>"), Ch("y"), Mk("</code>")>>

\* what extractCodeBlocks stores for a piece of code
CodeBlockOf(piece) ==
    CASE piece = FencedCode -> ConfluenceCodeBlock
      [] piece = FencedDollar -> DollarCodeBlock
      [] piece = InlineCode -> InlineCodeBlock

\* the positions where sub starts in s
IndexesOf(s, sub) == {k \in 1..(Len(s) - Len(sub) + 1) : SubSeq(s, k, k + Len(sub) - 1) = sub}

\* content.replace(regex, callback) of extractCodeBlocks for the pieces the
\* regex matches: each one, from the left, is replaced by the next placeholder
RECURSIVE ExtractFrom(_, _, _, _)
ExtractFrom(text, k, pieces, st) ==
    IF k > Len(text) THEN st
    ELSE IF text[k] \in pieces
    THEN ExtractFrom(text, k + 1, pieces,
                     [out |-> st.out \o CodeBlockPlaceholder(st.counter),
                      counter |-> st.counter + 1,
                      blocks |-> Append(st.blocks, [placeholder |-> CodeBlockPlaceholder(st.counter),
                                                    block |-> CodeBlockOf(text[k])])])
    ELSE ExtractFrom(text, k + 1, pieces, [st EXCEPT !.out = Append(st.out, text[k])])

\* extractCodeBlocks(content): the fenced blocks first, then the inline spans
ExtractCodeBlocks(text, counter, blocks) ==
    LET fenced == ExtractFrom(text, 1, {FencedCode, FencedDollar},
                              [out |-> <<>>, counter |-> counter, blocks |-> blocks])
    IN ExtractFrom(fenced.out, 1, {InlineCode}, [fenced EXCEPT !.out = <<>>])

\* the positions from k on where delim stands again after at least one
\* character, none of them a newline
Closings(text, k, delim) ==
    {q \in IndexesOf(text, delim) :
        /\ q > k + Len(delim)
        /\ \A j \in (k + Len(delim))..(q - 1) : text[j] /= Ch("\n")}

\* content.replace(/D(.+?)D/g, open + '$1' + close) for a delimiter D
RECURSIVE Delimited(_, _, _, _, _)
Delimited(text, k, delim, open, close) ==
    IF k > Len(text) THEN <<>>
    ELSE IF k \in IndexesOf(text, delim) /\ Closings(text, k, delim) /= {}
    THEN LET q == Min(Closings(text, k, delim))
         IN open \o SubSeq(text, k + Len(delim), q - 1) \o close
            \o Delimited(text, q + Len(delim), delim, open, close)
    ELSE <<text[k]>> \o Delimited(text, k + 1, delim, open, close)

Repeat(c, n) == [k \in 1..n |-> c]

StrongEm == <<Mk("<strong>"), Mk("<em>")>>

EmStrong == <<Mk("</em>"), Mk("</strong>")>>

\* the six rules for bold and italic, in their order
Emphasis(text) ==
    LET r1 == Delimited(text, 1, Repeat(Ch("*"), 3), StrongEm, EmStrong)
        r2 == Delimited(r1, 1, Repeat(Ch("*"), 2), <<Mk("<strong>")>>, <<Mk("</strong>")>>)
        r3 == Delimited(r2, 1, Repeat(Ch("*"), 1), <<Mk("<em>")>>, <<Mk("</em>")>>)
        r4 == Delimited(r3, 1, Repeat(Ch("_"), 3), StrongEm, EmStrong)
        r5 == Delimited(r4, 1, Repeat(Ch("_"), 2), <<Mk("<strong>")>>, <<Mk("</strong>")>>)
    IN Delimited(r5, 1, Repeat(Ch("_"), 1), <<Mk("<em>")>>, <<Mk("</em>")>>)

\* the first position after k where text holds c, 0 when there is none
NextOf(text, k, c) ==
    LET at == {j \in (k + 1)..Len(text) : text[j] = c}
    IN IF at = {} THEN 0 ELSE Min(at)

\* the match of /\[([^\]]+)\]\(([^)]+)\)/ (least = 1) or of the part of
\* /!\[([^\]]*)\]\(([^)]+)\)/ after the "!" (least = 0) that starts at k: the
\* positions of "]" and of ")", or 0 and 0 when there is no match
BracketMatch(text, k, least) ==
    LET q == NextOf(text, k, Ch("]"))
        r == IF q = 0 THEN 0 ELSE NextOf(text, q + 1, Ch(")"))
    IN IF /\ k <= Len(text) /\ text[k] = Ch("[")
          /\ q >= k + 1 + least
          /\ q < Len(text) /\ text[q + 1] = Ch("(")
          /\ r >= q + 3
       THEN [q |-> q, r |-> r] ELSE [q |-> 0, r |-> 0]

\* '<a href="$2">$1</a>' and '<ac:image><ri:url ri:value="$2" /></ac:image>'
Anchor(label, url) == <<Mk("<a href=")>> \o url \o <<Mk(">")>> \o label \o <<Mk("</a>")>>

ImageEmbed(url) == <<Mk("<ac:image>")>> \o url \o <<Mk("</ac:image>")>>

\* content.replace(/\[([^\]]+)\]\(([^)]+)\)/g, '<a href="$2">$1</a>'), from k on
RECURSIVE Links(_, _)
Links(text, k) ==
    IF k > Len(text) THEN <<>>
    ELSE LET m == BracketMatch(text, k, 1)
         IN IF m.q /= 0
            THEN Anchor(SubSeq(text, k + 1, m.q - 1), SubSeq(text, m.q + 2, m.r - 1))
                 \o Links(text, m.r + 1)
            ELSE <<text[k]>> \o Links(text, k + 1)

\* content.replace(/!\[([^\]]*)\]\(([^)]+)\)/g, '<ac:image>...</ac:image>'), from k on
RECURSIVE Images(_, _)
Images(text, k) ==
    IF k > Len(text) THEN <<>>
    ELSE LET m == BracketMatch(text, k + 1, 0)
         IN IF text[k] = Ch("!") /\ m.q /= 0
            THEN ImageEmbed(SubSeq(text, m.q + 2, m.r - 1)) \o Images(text, m.r + 1)
            ELSE <<text[k]>> \o Images(text, k + 1)

\* content.startsWith('<'): the tags of the emphasis, link and image rules do
StartsWithTag(text) ==
    text /= <<>> /\ text[1] \in {Mk("<strong>"), Mk("<em>"), Mk("<a href="), Mk("<ac:image>")}

\* convertMarkdownToConfluence(content) on a line of the model: the emphasis
\* rules, the link rule, the image rule, the paragraph around a text that does
\* not start with '<', and the removal of the empty paragraph
FormatLine(text) ==
    LET emphasised == Images(Links(Emphasis(text), 1), 1)
    IN IF StartsWithTag(emphasised) THEN emphasised
       ELSE IF emphasised = <<>> THEN <<>>
       ELSE <<Mk("<p>")>> \o emphasised \o <<Mk("</p>")>>

\* content.replace(placeholder, block) for strings: the first occurrence only,
\* the replacement patterns of block expanded
ReplaceString(text, pattern, repl) ==
    IF IndexesOf(text, pattern) = {} THEN text
    ELSE LET k == Min(IndexesOf(text, pattern))
             before == SubSeq(text, 1, k - 1)
             after == SubSeq(text, k + Len(pattern), Len(text))
         IN before \o GetSubstitution(repl, pattern, before, after) \o after

\* this.codeBlocks.forEach(...): the entries in insertion order, from entry k on
RECURSIVE RestoreFrom(_, _, _)
RestoreFrom(text, blocks, k) ==
    IF k > Len(blocks) THEN text
    ELSE RestoreFrom(ReplaceString(text, blocks[k].placeholder, blocks[k].block), blocks, k + 1)

\* restoreCodeBlocks(content)
RestoreCodeBlocks(text, blocks) == RestoreFrom(text, blocks, 1)

\* a converter on which convert may have run before
MInit ==
    /\ mpc = "start"
    /\ markdownArg \in Markdowns
    /\ content = <<>>
    /\ codeBlockCounter \in {0, 1}
    /\ codeBlocks \in {<<>>, <<[placeholder |-> CodeBlockPlaceholder(0), block |-> InlineCodeBlock]>>}
    /\ codeBlockCounter = Len(codeBlocks)
    /\ runs = 0

\* a convert that goes on counting where the last call stopped
ConvertStartNoReset ==
    /\ mpc = "start"
    /\ content' = markdownArg
    /\ mpc' = "extract"
    /\ UNCHANGED <<markdownArg, codeBlocks, codeBlockCounter, runs, pvars, lvars, cvars, tvars>>

\* convert: this.codeBlockCounter = 0; this.codeBlocks.clear(); let processed = markdown
ConvertStart ==
    /\ mpc = "start"
    /\ codeBlockCounter' = 0
    /\ codeBlocks' = <<>>
    /\ content' = markdownArg
    /\ mpc' = "extract"
    /\ UNCHANGED <<markdownArg, runs, pvars, lvars, cvars, tvars>>

\* Step 1: processed = this.extractCodeBlocks(processed)
ConvertExtract ==
    /\ mpc = "extract"
    /\ LET r == ExtractCodeBlocks(content, codeBlockCounter, codeBlocks)
       IN /\ content' = r.out
          /\ codeBlockCounter' = r.counter
          /\ codeBlocks' = r.blocks
    /\ mpc' = "format"
    /\ UNCHANGED <<markdownArg, runs, pvars, lvars, cvars, tvars>>

\* Step 2: processed = this.convertMarkdownToConfluence(processed)
ConvertFormat ==
    /\ mpc = "format"
    /\ content' = FormatLine(content)
    /\ mpc' = "restore"
    /\ UNCHANGED <<markdownArg, codeBlocks, codeBlockCounter, runs, pvars, lvars, cvars, tvars>>

\* Step 3: processed = this.restoreCodeBlocks(processed); return processed
ConvertRestore ==
    /\ mpc = "restore"
    /\ content' = RestoreCodeBlocks(content, codeBlocks)
    /\ mpc' = "done"
    /\ runs' = runs + 1
    /\ UNCHANGED <<markdownArg, codeBlocks, codeBlockCounter, pvars, lvars, cvars, tvars>>

\* convert is called again on the same converter, with the same markdown
ConvertAgain ==
    /\ mpc = "done"
    /\ runs < MaxRuns
    /\ mpc' = "start"
    /\ UNCHANGED <<markdownArg, content, codeBlocks, codeBlockCounter, runs, pvars, lvars,
                   cvars, tvars>>

NextLegacy == ConvertStart \/ ConvertExtract \/ ConvertFormat \/ ConvertRestore \/ ConvertAgain

InitLegacy == PIdle /\ LIdle /\ CIdle /\ TIdle /\ MInit

SpecLegacy == InitLegacy /\ [][NextLegacy]_vars

----------------------------------------------------------------------------
(* restoreCodeBlocks on what extractCodeBlocks returns *)

\* a converter whose convert has set processed = markdown
RInit ==
    /\ mpc = "extract"
    /\ markdownArg \in Markdowns
    /\ content = markdownArg
    /\ codeBlocks = <<>>
    /\ codeBlockCounter = 0
    /\ runs = 0

\* restoreCodeBlocks(content) for the protected text, as it left extractCodeBlocks
RestoreProtected ==
    /\ mpc = "format"
    /\ content' = RestoreCodeBlocks(content, codeBlocks)
    /\ mpc' = "restored"
    /\ UNCHANGED <<markdownArg, codeBlocks, codeBlockCounter, runs, pvars, lvars, cvars, tvars>>

NextRestore == ConvertExtract \/ RestoreProtected

InitRestore == PIdle /\ LIdle /\ CIdle /\ TIdle /\ RInit

SpecRestore == InitRestore /\ [][NextRestore]_vars

----------------------------------------------------------------------------
(* SimpleConfluenceConverter.convert on a fenced code block *)

Chars(str) == [k \in 1..Len(str) |-> Ch(str[k])]

\* the pieces the code texts of the model are put together from
Chunks ==
    { Chars(<<"a">>),
      Chars(<<"<", "T", ">">>),
      Chars(<<"&">>),
      Chars(<<"<", "h", "r", ">">>),
      Chars(<<"<", "B", "R", " ", "/", ">">>),
      Chars(<<"<", "/", "b", "r", ">">>),
      Chars(<<"<", "i", "m", "g", " ", "a", ">">>),
      Chars(<<"<", "i", "m", "g">>),
      Chars(<<"/", ">">>) }

CodeTexts == {Flatten(ss) : ss \in UNION {[1..k -> Chunks] : k \in 0..MaxChunks}}

Langs == {"", "js", "sql"}

CInit ==
    /\ cpc = "in"
    /\ codeText \in CodeTexts
    /\ codeLang \in Langs
    /\ cleaned = <<>>

\* convert on a document that is one fenced block with label codeLang and the
\* lines codeText: marked hands the block to renderer.code, then the clean-up
ConvertCode ==
    /\ cpc = "in"
    /\ cleaned' = Cleanup(MermaidFallback(RendererCode(FenceToken(codeLang, codeText \o <<Ch("\n")>>))))
    /\ cpc' = "out"
    /\ UNCHANGED <<codeText, codeLang, pvars, lvars, tvars, mvars>>

NextCode == ConvertCode

InitCode == PIdle /\ LIdle /\ CInit /\ TIdle /\ MIdle

SpecCode == InitCode /\ [][NextCode]_vars

----------------------------------------------------------------------------
(* The clean-up of SimpleConfluenceConverter.convert outside code *)

\* the pieces the html that marked returns is put together from: text, the
\* rule and the line break as marked writes them, and what an HTML block of
\* the note brings along unchanged (other spellings, closing tags, a tag with
\* an attribute, pieces of tags)
HtmlParts ==
    { Chars(<<"a">>),
      Chars(<<" ">>),
      Chars(<<"<", "h", "r", ">">>),
      Chars(<<"<", "b", "r", ">">>),
      Chars(<<"<", "H", "R", " ", "/", ">">>),
      Chars(<<"<", "b", "r", "/", " ", ">">>),
      Chars(<<"<", "h", "r", "/", ">">>),
      Chars(<<"<", "/", "h", "r", ">">>),
      Chars(<<"<", "/", "b", "r", ">">>),
      Chars(<<"<", "b", "r", " ", "a", ">">>),
      Chars(<<"<", "h">>),
      Chars(<<"r", ">">>) }

HtmlTexts == {Flatten(ss) : ss \in UNION {[1..k -> HtmlParts] : k \in 0..MaxParts}}

HInit ==
    /\ cpc = "html"
    /\ codeText \in HtmlTexts
    /\ codeLang = ""
    /\ cleaned = <<>>

\* let cleaned = String(html).trim(); cleaned = cleaned.replace(...)...
CleanHtml ==
    /\ cpc = "html"
    /\ cleaned' = Cleanup(codeText)
    /\ cpc' = "cleaned"
    /\ UNCHANGED <<codeText, codeLang, pvars, lvars, tvars, mvars>>

\* the chain of replace calls once more, on its own result
CleanAgain ==
    /\ cpc = "cleaned"
    /\ content' = ApplyRules(CleanupRules, cleaned)
    /\ cpc' = "again"
    /\ UNCHANGED <<codeText, codeLang, cleaned, mpc, markdownArg, codeBlocks, codeBlockCounter,
                   runs, pvars, lvars, tvars>>

NextClean == CleanHtml \/ CleanAgain

InitClean == PIdle /\ LIdle /\ HInit /\ TIdle /\ MIdle

SpecClean == InitClean /\ [][NextClean]_vars

----------------------------------------------------------------------------
(* Properties of the publish pipeline *)

PublishCalls == SelectSeq(calls, LAMBDA c : c.call \in {"updatePage", "createPage"})

UploadCalls == SelectSeq(calls, LAMBDA c : c.call = "uploadAttachment")

RenderCalls == SelectSeq(calls, LAMBDA c : c.call = "render")

Ended == pc \in {"Done", "Failed"}

\* convert has returned
Converted == pc \notin {"Idle", "Converting"}

\* the number of diagram entries convert returned
NumDiagrams == IF mermaidData.null THEN 0 ELSE Len(mermaidData.list)

Ascending(cs) == \A i, j \in 1..Len(cs) : i < j => cs[i].ord < cs[j].ord

SameTarget(cs) == \A i, j \in 1..Len(cs) : cs[i].id = cs[j].id

Contains(s, sub) == \E k \in 0..(Len(s) - Len(sub)) : SubSeq(s, k + 1, k + Len(sub)) = sub

Failures == {n \in 1..Len(notices) : notices[n].kind = "failure"}

Successes == {n \in 1..Len(notices) : notices[n].kind = "success"}

\* C1: an upload or create action whose converted document has no diagram
\* entries (mermaidData null or empty) issues no attachment upload and never
\* more than one publish call, and exactly one by the time it ends.
C1_OnePublishWithoutDiagrams ==
    (Converted /\ NumDiagrams = 0) =>
        /\ Len(UploadCalls) = 0
        /\ Len(PublishCalls) <= 1
        /\ Ended => Len(PublishCalls) = 1

\* an upload with rendering enabled and a document without diagram blocks
\* (an empty, non-null list) has ended in Done after its single publish
C1_Witness ==
    /\ pc = "Done"
    /\ op = "upload"
    /\ ~mermaidData.null
    /\ NumDiagrams = 0
    /\ Len(PublishCalls) = 1

\* C2 as stated: every action whose source holds N >= 1 diagram blocks has, when
\* it ends, made exactly two publish calls to one target id, at most N renders
\* and at most N uploads, each in ascending ordinal order.
C2_Original ==
    LET n == Len(Matches(src))
    IN (Ended /\ n >= 1) =>
        /\ Len(PublishCalls) = 2
        /\ SameTarget(PublishCalls \o UploadCalls)
        /\ Len(RenderCalls) <= n /\ Len(UploadCalls) <= n
        /\ Ascending(RenderCalls) /\ Ascending(UploadCalls)

\* C2, amended: an action whose conversion returned N >= 1 diagram entries
\* makes at most two publish calls, all of them and every attachment upload
\* addressed to one target id (the id createPage returned, in a create), at
\* most N renders and at most N uploads, each in strictly ascending ordinal
\* order; it has made exactly one publish call when it ends after the initial
\* publish failed, and exactly two when it ends after resolving the diagrams.
C2_TwoPublishesSameTarget ==
    (Converted /\ NumDiagrams >= 1) =>
        /\ Len(PublishCalls) <= 2
        /\ SameTarget(PublishCalls \o UploadCalls)
        /\ \A k \in 1..Len(UploadCalls) : UploadCalls[k].id = pageId /\ pageId /= ""
        /\ Len(RenderCalls) <= NumDiagrams /\ Len(UploadCalls) <= NumDiagrams
        /\ Ascending(RenderCalls) /\ Ascending(UploadCalls)
        /\ (Ended /\ PublishCalls[1].res /= "ok") => Len(PublishCalls) = 1
        /\ (Ended /\ idx = NumDiagrams) =>
              /\ Len(PublishCalls) = 2
              /\ PublishCalls[2].call = "updatePage"
              /\ PublishCalls[2].id = pageId

\* a create with two rendered diagrams has ended in Done: createPage, two
\* uploads to the created page, and the final update of that page
C2_Witness ==
    /\ pc = "Done"
    /\ op = "create"
    /\ NumDiagrams >= 2
    /\ Len(UploadCalls) >= 2
    /\ Len(PublishCalls) = 2
    /\ PublishCalls[2].id = NewPageId

\* the uploadAttachment call of ordinal i returned the file name
Uploaded(i) == \E k \in 1..Len(UploadCalls) : UploadCalls[k].ord = i /\ UploadCalls[k].res = "ok"

FinalCalls == SelectSeq(PublishCalls, LAMBDA c : c.phase = "final")

\* C3: whatever the render and upload outcomes, the body of the final publish
\* holds for each ordinal i the image reference of attachment i iff the render
\* and the upload of i succeeded, and otherwise the fallback code block around
\* the diagram source of i; and the final publish is issued in every case.
C3_Original ==
    (Converted /\ NumDiagrams >= 1) =>
        /\ (Ended /\ PublishCalls[1].res = "ok") => Len(FinalCalls) = 1
        /\ \A c \in 1..Len(FinalCalls) : \A k \in 1..NumDiagrams :
              LET item == mermaidData.list[k]
                  image == GenerateConfluenceMarkup(Filename(item.index), item.code)
                  block == GenerateConfluenceMarkup(NoFile, item.code)
                  ok == item.svg /= "" /\ Uploaded(item.index)
              IN /\ Contains(FinalCalls[c].body, image) <=> ok
                 /\ ~ok => Contains(FinalCalls[c].body, block)

\* the failure notice an action shows comes from a publish call or from what
\* follows the last publish, never from a diagram
FatalErrors == {ErrPageId, ErrFetch, ErrUpdate, ErrNetwork, ErrCreate, ErrSave, ErrClipboard}

DiagramFailed ==
    \/ \E k \in 1..Len(RenderCalls) : RenderCalls[k].res /= "ok"
    \/ \E k \in 1..Len(UploadCalls) : UploadCalls[k].res /= "ok"

\* The control flow after a render failure or an upload failure of a diagram:
\* a failure notice still names a publish, save or clipboard error only, the
\* loop goes on to the next item, and an action that ends after a successful
\* initial publish has handled every item (an upload for each rendered one)
\* and has issued the final publish.
DiagramFailuresContained ==
    DiagramFailed =>
        /\ \A n \in Failures : notices[n].msg \in FatalErrors
        /\ pc = "Failed" => calls[Len(calls)].call \in {"updatePage", "createPage"}
                            \/ notices[Len(notices)].msg \in {ErrSave, ErrClipboard}
        /\ (Ended /\ NumDiagrams >= 1 /\ PublishCalls[1].res = "ok") =>
              /\ idx = NumDiagrams
              /\ \A k \in 1..NumDiagrams :
                    mermaidData.list[k].svg /= "" =>
                        \E u \in 1..Len(UploadCalls) : UploadCalls[u].ord = mermaidData.list[k].index
              /\ Len(FinalCalls) = 1

\* the diagram of ordinal i failed to render or to upload
FailedDiagram(i) ==
    \/ \E k \in 1..Len(RenderCalls) : RenderCalls[k].ord = i /\ RenderCalls[k].res /= "ok"
    \/ \E k \in 1..Len(UploadCalls) : UploadCalls[k].ord = i /\ UploadCalls[k].res /= "ok"

\* C4: a render failure or an upload failure of diagram i never moves the
\* action to Failed and never prevents the processing of a diagram j > i:
\* the action still attempts the upload of every later rendered diagram and
\* reaches the final publish, and a later diagram that itself rendered and
\* uploaded has its placeholder substituted in the body of that publish.
C4_Original ==
    /\ DiagramFailuresContained
    /\ \A c \in 1..Len(FinalCalls) : \A i, j \in 0..(NumDiagrams - 1) :
          (i < j /\ FailedDiagram(i) /\ ~FailedDiagram(j)) =>
              Placeholder(j) \notin Range(FinalCalls[c].body)

GetReqs == SelectSeq(reqs, LAMBDA r : r.method = "GET")

PutReqs == SelectSeq(reqs, LAMBDA r : r.method = "PUT")

\* C5: when the initial publish call fails the action is in Failed with that
\* call's error message as its one notice, the modal closed, and the failed
\* call is the last call issued (no attachment upload, no other publish); no
\* publish is retried: at most one publish call per phase, and at most one GET
\* and one PUT per updatePage call.
C5_InitialFailureIsFatal ==
    /\ (Len(PublishCalls) >= 1 /\ PublishCalls[1].res \notin {"ok", "pending"}) =>
          /\ pc = "Failed"
          /\ Len(PublishCalls) = 1
          /\ Len(UploadCalls) = 0
          /\ calls[Len(calls)] = PublishCalls[1]
          /\ notices = <<Notice("failure", PublishCalls[1].res)>>
          /\ ~modalOpen
    /\ \A ph \in {"initial", "final"} :
          Len(SelectSeq(PublishCalls, LAMBDA c : c.phase = ph)) <= 1
    /\ Len(GetReqs) <= Len(SelectSeq(calls, LAMBDA c : c.call = "updatePage"))
    /\ Len(PutReqs) <= Len(GetReqs)

\* the initial update of a document with diagrams was rejected by the network
C5_Witness ==
    /\ pc = "Failed"
    /\ op = "upload"
    /\ NumDiagrams >= 1
    /\ Len(PublishCalls) = 1
    /\ PublishCalls[1].res = ErrNetwork

\* C6: an action that has ended has given exactly one outcome report, a
\* success or a failure, never both.
C6_Original == Ended => Cardinality(Successes) + Cardinality(Failures) = 1

\* the version the store held for page p at the start (a created page starts
\* at version 1)
Version0(p) == IF p = "p1" THEN 1 ELSE IF p = "p2" THEN 2 ELSE 0

Created(p) == \E k \in 1..Len(calls) : calls[k].call = "createPage" /\ calls[k].res = "ok" /\ calls[k].id = p

PutsOk(p) == Len(SelectSeq(reqs, LAMBDA r : r.method = "PUT" /\ r.resp = "ok" /\ r.id = p))

\* C7: every PUT of updatePage directly follows a successful GET of the same
\* page and sends the fetched version + 1 and the fetched title; a failed GET
\* or a rejected PUT is the last request of the action, which is then Failed
\* with a failure notice; so the store's version of a page is its starting
\* version plus the number of successful updates.
C7_ReadBeforeWrite ==
    /\ \A k \in 1..Len(reqs) :
          /\ reqs[k].method = "PUT" =>
                /\ k > 1
                /\ reqs[k - 1].method = "GET"
                /\ reqs[k - 1].resp = "ok"
                /\ reqs[k - 1].id = reqs[k].id
                /\ reqs[k].number = reqs[k - 1].number + 1
                /\ reqs[k].title = reqs[k - 1].title
          /\ (reqs[k].method \in {"GET", "PUT"} /\ reqs[k].resp /= "ok") =>
                /\ k = Len(reqs)
                /\ pc = "Failed"
                /\ notices /= <<>>
                /\ notices[Len(notices)].kind = "failure"
                /\ notices[Len(notices)].msg \in {ErrFetch, ErrUpdate, ErrNetwork}
    /\ \A p \in DOMAIN store :
          store[p].version = Version0(p) + (IF Created(p) THEN 1 ELSE 0) + PutsOk(p)

\* both updates of an upload with diagrams succeeded: the second PUT carries
\* the version the first one wrote, plus one
C7_Witness ==
    /\ Len(PutReqs) = 2
    /\ PutReqs[1].resp = "ok" /\ PutReqs[2].resp = "ok"
    /\ PutReqs[1].id = "p2" /\ PutReqs[2].id = "p2"
    /\ PutReqs[1].number = 3 /\ PutReqs[2].number = 4
    /\ PutReqs[2].title = "Two"

HasPlaceholder(s) == \E k \in 1..Len(s) : s[k].t = "ph"

\* C9: when an action with a non-empty diagram list is Done, the body of its
\* last publish call holds no diagram placeholder.
C9_Original ==
    (pc = "Done" /\ NumDiagrams >= 1) => ~HasPlaceholder(PublishCalls[Len(PublishCalls)].body)

----------------------------------------------------------------------------
(* Properties of the converters *)

Find(s, sub) == {k \in 0..(Len(s) - Len(sub)) : SubSeq(s, k + 1, k + Len(sub)) = sub}

\* the text inside the CDATA container of the first code macro of html
CdataContent(html) ==
    LET opens == {k \in 1..Len(html) : html[k].t = "code"}
    IN IF opens = {} THEN <<Mk("no code macro")>>
       ELSE LET rest == SubSeq(html, Min(opens) + 1, Len(html))
                ends == Find(rest, Chars(<<"]", "]", ">">>))
            IN IF ends = {} THEN <<Mk("no end of CDATA")>>
               ELSE SubSeq(rest, 1, Min(ends))

\* C8: the code text inside the CDATA container of the converted output
\* equals the code text of the source block, character for character.
C8_Original == cpc = "out" => CdataContent(cleaned) = codeText

\* the open lists of a sequence of tags, bottom first: <<"bad">> once a
\* closing tag does not close the innermost open list
RECURSIVE OpenLists(_)
OpenLists(out) ==
    IF out = <<>> THEN <<>>
    ELSE LET before == OpenLists(Pop(out))
             tag == Top(out)
         IN IF before = <<"bad">> THEN before
            ELSE IF tag \in {"<ul>", "<ol>"} THEN Append(before, tag)
            ELSE IF tag \in {"</ul>", "</ol>"}
            THEN IF before /= <<>> /\ Top(before) = (IF tag = "</ul>" THEN "<ul>" ELSE "<ol>")
                 THEN Pop(before) ELSE <<"bad">>
            ELSE before

Count(out, tag) == Cardinality({k \in 1..Len(out) : out[k] = tag})

\* C10: the list tags convertLists emits are balanced and properly nested:
\* at every point the lists open in the output are exactly the frames of the
\* stack (so every closing tag closes the innermost open list of its kind),
\* the indentation of the frames grows strictly from the bottom to the top, an
\* item is emitted in a list of its own kind and indentation, a deeper item
\* that follows a shallower one is emitted inside the shallower one's list,
\* and at the end of the input every list is closed.
C10_ListsBalanced ==
    /\ OpenLists(result) = [k \in 1..Len(listStack) |-> OpenTag(listStack[k].type)]
    /\ \A i, j \in 1..Len(listStack) : i < j => listStack[i].indent < listStack[j].indent
    /\ (lpc = "lines" /\ lines /= <<>> /\ Top(lines).type /= "none") =>
          /\ Top(result) = "<li>"
          /\ listStack /= <<>>
          /\ Top(listStack) = Frame(Top(lines).type, Top(lines).indent)
          /\ (/\ Len(lines) >= 2
              /\ lines[Len(lines) - 1].type /= "none"
              /\ lines[Len(lines) - 1].indent < Top(lines).indent) =>
                /\ Len(listStack) >= 2
                /\ listStack[Len(listStack) - 1] =
                      Frame(lines[Len(lines) - 1].type, lines[Len(lines) - 1].indent)
    /\ (lines /= <<>> /\ Top(lines).type = "none") => listStack = <<>>
    /\ lpc = "done" =>
          /\ OpenLists(result) = <<>>
          /\ Count(result, "<ul>") = Count(result, "</ul>")
          /\ Count(result, "<ol>") = Count(result, "</ol>")
          /\ Count(result, "<li>") = Cardinality({k \in 1..Len(lines) : lines[k].type /= "none"})

\* a three-level list of mixed kinds followed by an item of the other kind at
\* the top level: the three lists are closed innermost first
C10_Witness ==
    /\ lpc = "done"
    /\ lines = <<Frame("ul", 0), Frame("ol", 1), Frame("ul", 2), Frame("ol", 0)>>
    /\ result = <<"<ul>", "<li>", "<ol>", "<li>", "<ul>", "<li>", "</ul>", "</ol>",
                  "</ul>", "<ol>", "<li>", "</ol>">>

----------------------------------------------------------------------------
(* convertTables *)

\* what one turn of the loop pushed onto result
Emitted == SubSeq(result', Len(result) + 1, Len(result'))

\* the pushes that open a table with a header section
OpensTable(out) ==
    /\ Len(out) >= 2
    /\ out[1] = "<table>"
    /\ out[2] = "<thead>"
    /\ "</thead>" \in Range(out)

\* C11: a |...| line opens a table with a header section exactly when the
\* line after it is a separator; outside a table and not followed by a
\* separator it opens no table and is emitted unchanged; the separator line is
\* skipped and produces no row of its own.
C11_Original ==
    [][(tpc = "lines" /\ ti <= Len(lines) /\ ti' /= ti /\ IsPipeLine(lines[ti])) =>
         /\ OpensTable(Emitted) <=> NextIsSeparator(lines, ti)
         /\ (~inTable /\ ~NextIsSeparator(lines, ti)) =>
                (Emitted = <<lines[ti]>> /\ ~inTable')
         /\ NextIsSeparator(lines, ti) =>
                (ti' = ti + 2 /\ Count(Emitted, "<tr>") = 1)]_vars

\* a second header inside the table that is still open
C11_Witness ==
    /\ tpc = "done"
    /\ lines = <<"|a|", "|-|", "|a|", "|-|">>
    /\ result = <<"<table>", "<thead>", "<tr>", "<th>", "</tr>", "</thead>", "<tbody>",
                  "<tr>", "<th>", "</tr>", "</thead>", "<tbody>", "</tbody>", "</table>">>

----------------------------------------------------------------------------
(* convertMarkdownToConfluence *)

\* the tags of p, h1-h6, ul, ol, li, table, thead, tbody, tr, th and td a
\* piece of the output holds, in order; "<li>", "<th>" and "<td>" stand for
\* an element with its text
TagsOf(piece) ==
    CASE piece = "<h1>T</h1>" -> <<"<h1>", "</h1>">>
      [] piece = "<h2>T</h2>" -> <<"<h2>", "</h2>">>
      [] piece = "<li>" -> <<"<li>", "</li>">>
      [] piece = "<th>" -> <<"<th>", "</th>">>
      [] piece = "<td>" -> <<"<td>", "</td>">>
      [] piece \in {"text", "|a|", "|-|", "<br />"} -> <<>>
      [] OTHER -> <<piece>>

IsClosing(tag) ==
    tag \in {"</p>", "</h1>", "</h2>", "</ul>", "</ol>", "</li>", "</table>",
             "</thead>", "</tbody>", "</tr>", "</th>", "</td>"}

Opening(tag) ==
    CASE tag = "</p>" -> "<p>" [] tag = "</h1>" -> "<h1>" [] tag = "</h2>" -> "<h2>"
      [] tag = "</ul>" -> "<ul>" [] tag = "</ol>" -> "<ol>" [] tag = "</li>" -> "<li>"
      [] tag = "</table>" -> "<table>" [] tag = "</thead>" -> "<thead>"
      [] tag = "</tbody>" -> "<tbody>" [] tag = "</tr>" -> "<tr>"
      [] tag = "</th>" -> "<th>" [] tag = "</td>" -> "<td>"

\* the elements open after the tags, outermost first: <<"bad">> once a closing
\* tag does not close the innermost open element
RECURSIVE OpenElements(_)
OpenElements(tags) ==
    IF tags = <<>> THEN <<>>
    ELSE LET before == OpenElements(Pop(tags))
             tag == Top(tags)
         IN IF before = <<"bad">> THEN before
            ELSE IF ~IsClosing(tag) THEN Append(before, tag)
            ELSE IF before /= <<>> /\ Top(before) = Opening(tag)
            THEN Pop(before) ELSE <<"bad">>

RECURSIVE AllTags(_)
AllTags(text) ==
    IF text = <<>> THEN <<>> ELSE TagsOf(Head(text)) \o AllTags(Tail(text))

WellFormed(text) == OpenElements(AllTags(text)) = <<>>

\* C12: whatever the heading, list, table, blank and plain lines of the input,
\* the output of convertMarkdownToConfluence is well-formed: every p, h1-h6,
\* ul, ol, li, table, thead, tbody, tr, th and td is matched and nested.
C12_Original == mpc = "formatted" => WellFormed(content)

\* a heading, an empty line and a paragraph
C12_Witness ==
    /\ mpc = "formatted"
    /\ lines = <<"# T", "", "text">>
    /\ content = <<"<h1>T</h1>", "<p>", "text">>

----------------------------------------------------------------------------
(* Configuration *)

\* the base URL and the credentials are configured
Configured(s) ==
    /\ s.baseUrl /= ""
    /\ s.apiToken /= ""
    /\ s.authType = "basic" => s.username /= ""

\* C13: when the base URL or the credentials (the API token, or the username
\* for basic authentication) are not configured, an upload or create action
\* issues no HTTP request, never ends in Done, and when it has failed the user
\* has been shown a failure message.
C13_Original ==
    ~Configured(settings) =>
        /\ reqs = <<>>
        /\ pc /= "Done"
        /\ pc = "Failed" => (notices /= <<>> /\ notices[Len(notices)].kind = "failure")

\* a create action without base URL has sent its POST
C13_Witness ==
    /\ op = "create"
    /\ settings.baseUrl = ""
    /\ settings.apiToken /= ""
    /\ Len(reqs) = 1
    /\ reqs[1].method = "POST"
    /\ pc = "Failed"

----------------------------------------------------------------------------
(* Validation *)

\* a required argument of the call is empty
EmptyArgument(c) ==
    CASE c.call \in {"getPage", "updatePage"} -> c.id = ""
      [] c.call = "createPage" -> c.body[1] = "" \/ c.body[2] = ""
      [] c.call = "uploadAttachment" -> c.id = "" \/ c.body[1] = "" \/ c.body[2] = ""

ValidationError(c) ==
    CASE c.call \in {"getPage", "updatePage"} -> ErrPageId
      [] c.call = "createPage" -> ErrSpaceTitle
      [] c.call = "uploadAttachment" -> ErrAttachArgs

\* C14: getPage and updatePage with an empty page id, createPage with an empty
\* space key or title, and uploadAttachment with an empty page id, file name or
\* content fail with their validation error, issue no request and change
\* neither the settings nor the store.
C14_ValidationIsLocal ==
    [][(Len(calls') = Len(calls) + 1 /\ EmptyArgument(calls'[Len(calls')])) =>
          /\ calls'[Len(calls')].res = ValidationError(calls'[Len(calls')])
          /\ reqs' = reqs
          /\ settings' = settings
          /\ store' = store]_vars

\* an update that went through, then an upload without content
C14_Witness ==
    /\ Len(calls) = 2
    /\ calls[1].call = "updatePage" /\ calls[1].res = "ok"
    /\ calls[2].call = "uploadAttachment"
    /\ calls[2].id = "p1" /\ calls[2].body = <<"mermaid-0.svg", "">>
    /\ calls[2].res = ErrAttachArgs
    /\ Len(reqs) = 2
    /\ settings.lastPageId = "p1"

----------------------------------------------------------------------------
(* Termination *)

\* C15: when every renderer call and every remote-store call returns or fails,
\* every upload or create action that was started reaches Done or Failed, and
\* the progress modal is closed once it has.
C15_ActionsEnd ==
    /\ [](Ended => ~modalOpen)
    /\ (pc /= "Idle") ~> Ended

\* a create action that went through both loops, with two uploads, and is Done
C15_Witness ==
    /\ pc = "Done"
    /\ op = "create"
    /\ ~modalOpen
    /\ Len(RenderCalls) = 2
    /\ Len(UploadCalls) = 2

----------------------------------------------------------------------------
(* The order of renders, publishes and attachment uploads *)

\* the initial publish has returned successfully before call k was issued
PublishedBefore(k) ==
    \E j \in 1..(k - 1) :
        /\ calls[j].call \in {"updatePage", "createPage"}
        /\ calls[j].phase = "initial"
        /\ calls[j].res = "ok"

----------------------------------------------------------------------------
(* MarkdownToConfluenceConverter.convert: placeholders *)

\* some piece of a placeholder is left in the text
HasCodePlaceholder(text) == \E k \in 1..Len(text) : text[k] = Mk("CODEBLOCK")

\* C18: the formatting rules leave the placeholders alone: every placeholder
\* extractCodeBlocks minted stands exactly once, unmodified, in the text
\* handed to restoreCodeBlocks, and the output of convert holds no placeholder
\* and every rendered code fragment exactly once.
C18_Original ==
    /\ mpc = "restore" =>
          \A k \in 1..Len(codeBlocks) :
              Cardinality(IndexesOf(content, codeBlocks[k].placeholder)) = 1
    /\ mpc = "done" =>
          /\ ~HasCodePlaceholder(content)
          /\ \A k \in 1..Len(codeBlocks) :
                Cardinality(IndexesOf(content, codeBlocks[k].block)) = 1

\* an inline code span whose placeholder came out of the bold rule
C18_Witness ==
    /\ mpc = "done"
    /\ markdownArg = <<InlineCode>>
    /\ Len(codeBlocks) = 1
    /\ content = <<Mk("<strong>"), Mk("CODEBLOCK"), Ch("_"), CodeBlockPlaceholder(0)[5],
                   Mk("</strong>")>>

----------------------------------------------------------------------------
(* The stack of open lists *)

\* the last two lines are list items
TwoItems ==
    /\ Len(lines) >= 2
    /\ Top(lines).type /= "none"
    /\ lines[Len(lines) - 1].type /= "none"

\* C19: at every point of convertLists the indentation of the frames of the
\* stack grows strictly from the bottom to the top, so no two adjacent frames
\* share kind and indent; after an item the top frame is the item's own kind
\* and indent, also when the item dedents to an indentation that is not on the
\* stack and when it switches the kind at the same depth.
C19_StackStrictlyIncreasing ==
    /\ \A k \in 1..(Len(listStack) - 1) :
          /\ listStack[k].indent < listStack[k + 1].indent
          /\ listStack[k] /= listStack[k + 1]
    /\ (lpc = "lines" /\ TwoItems) =>
          LET item == Top(lines)
              prev == lines[Len(lines) - 1]
          IN /\ Top(listStack) = Frame(item.type, item.indent)
             /\ \A k \in 1..(Len(listStack) - 1) : listStack[k].indent < item.indent
             /\ (item.indent = prev.indent /\ item.type /= prev.type) =>
                   Frame(prev.type, prev.indent) \notin Range(listStack)

\* a dedent from indent 2 to indent 1, which is not on the stack, with a
\* switch of the kind
C19_Witness ==
    /\ lpc = "lines"
    /\ lines = <<Frame("ul", 0), Frame("ul", 2), Frame("ol", 1)>>
    /\ listStack = <<Frame("ul", 0), Frame("ol", 1)>>

\* the closing tags of the frames, the top one first
ClosingTags(stack) == [k \in 1..Len(stack) |-> CloseTag(stack[Len(stack) + 1 - k].type)]

\* C20: a line that matches neither list pattern first gets a closing tag for
\* every frame of the stack, top first, which leaves the stack empty, and is
\* then emitted itself; the stack is empty before the first line and whenever
\* the last line read was not a list item.
C20_NonListLineClosesAll ==
    [][/\ ((lines = <<>> \/ Top(lines).type = "none") /\ lpc = "lines") => listStack = <<>>
       /\ (Len(lines') = Len(lines) + 1 /\ Top(lines').type = "none") =>
             /\ result' = result \o ClosingTags(listStack) \o <<"line">>
             /\ listStack' = <<>>]_vars

\* a non-list line after an ordered list nested in an unordered one
C20_Witness ==
    /\ lpc = "lines"
    /\ lines = <<Frame("ul", 0), Frame("ol", 1), Frame("none", 0)>>
    /\ result = <<"<ul>", "<li>", "<ol>", "<li>", "</ol>", "</ul>", "line">>
    /\ listStack = <<>>

\* the entries of out from the <table> at k up to its </table>, or up to the
\* end of out while the table is open
TableAt(out, k) ==
    LET ends == {j \in k..Len(out) : out[j] = "</table>"}
    IN SubSeq(out, k, IF ends = {} THEN Len(out) ELSE Min(ends))

\* a table with one header section and one body section
OneHeaderOneBody(table) ==
    /\ \A tag \in {"<thead>", "</thead>", "<tbody>", "</tbody>"} : Count(table, tag) <= 1
    /\ table[Len(table)] = "</table>" =>
           \A tag \in {"<thead>", "</thead>", "<tbody>", "</tbody>"} : Count(table, tag) = 1

\* a body row of data cells for the line
BodyRow(line) == <<"<tr>">> \o Cells("<td>", line) \o <<"</tr>">>

\* C21: while convertTables is in the in-table state every |...| line is
\* emitted as a body row of data cells, and every table of the result has
\* exactly one <thead>...</thead> and exactly one <tbody>...</tbody>, also
\* when a body row is followed by a line that matches the separator pattern.
C21_Original ==
    [][(tpc = "lines" /\ ti <= Len(lines) /\ ti' /= ti) =>
         /\ (inTable /\ IsPipeLine(lines[ti])) => Emitted = BodyRow(lines[ti])
         /\ \A k \in 1..Len(result') :
                result'[k] = "<table>" => OneHeaderOneBody(TableAt(result', k))]_vars

\* a body row followed by a separator line, in a table that was closed
C21_Witness ==
    /\ tpc = "done"
    /\ lines = <<"|a|", "|-|", "|a|b|", "|-|">>
    /\ Count(result, "<table>") = 1
    /\ Count(result, "</thead>") = 2
    /\ Count(result, "<td>") = 0

----------------------------------------------------------------------------
(* The settings an action leaves behind *)

\* the fields of the settings other than those of F are as they were when the
\* action started
SettingsKeptBut(F) == \A f \in (DOMAIN settings) \ F : settings[f] = settings0[f]

\* C22 as stated: the only settings field an upload or create action changes
\* is the remembered page id; every other field has the same value after the
\* action as before it.
C22_Original == SettingsKeptBut({"lastPageId"})

\* C22: an upload action changes no settings field but lastPageId; a create
\* action changes lastPageId and defaultSpaceKey and no other field, and when
\* it ends in Done lastPageId is the page it published to and defaultSpaceKey
\* the space key it created the page in.
C22_SettingsFrame ==
    /\ op /= "create" => SettingsKeptBut({"lastPageId"})
    /\ op = "create" => SettingsKeptBut({"lastPageId", "defaultSpaceKey"})
    /\ pc = "Done" => settings.lastPageId = pageId
    /\ (pc = "Done" /\ op = "create") => settings.defaultSpaceKey = spaceKey

\* a create action that ended and left a new page id and a new space key
C22_Witness ==
    /\ pc = "Done"
    /\ op = "create"
    /\ settings.lastPageId = NewPageId
    /\ settings.lastPageId /= settings0.lastPageId
    /\ settings.defaultSpaceKey = spaceKey
    /\ settings.defaultSpaceKey /= settings0.defaultSpaceKey

----------------------------------------------------------------------------
(* uploadAttachment *)

\* the requests the call of this step issued
Issued == SubSeq(reqs', Len(reqs) + 1, Len(reqs'))

\* this step is a call of uploadAttachment that got as far as its requests
AttachmentCall ==
    /\ Len(calls') = Len(calls) + 1
    /\ calls'[Len(calls')].call = "uploadAttachment"
    /\ reqs' /= reqs

Methods(requests) == [k \in 1..Len(requests) |-> requests[k].method]

\* C23: uploadAttachment issues its requests in the order check, delete,
\* upload. When the check reports an attachment of that name, a DELETE is
\* issued next and the upload POST only after the DELETE succeeded; when the
\* DELETE fails there is no POST and the call fails. When the check reports
\* none, no DELETE is issued. After the call the page holds at most one
\* attachment of that name, and exactly one when the call returned.
C23_CheckDeleteUpload ==
    [][AttachmentCall =>
         LET new == Issued
             call == calls'[Len(calls')]
             key == <<call.id, call.body[1]>>
         IN /\ new[1].method = "GET attachment"
            /\ \A k \in 2..Len(new) : new[k].method /= "GET attachment"
            /\ new[1].resp = "found" =>
                  /\ Len(new) >= 2
                  /\ new[2].method = "DELETE attachment"
                  /\ new[2].resp = "ok" =>
                        (Len(new) >= 3 /\ new[3].method = "POST attachment")
                  /\ new[2].resp /= "ok" => (Len(new) = 2 /\ call.res /= "ok")
            /\ new[1].resp = "none" =>
                  /\ "DELETE attachment" \notin Range(Methods(new))
                  /\ Len(new) >= 2 /\ new[2].method = "POST attachment"
            /\ \A k \in 1..Len(new) :
                  new[k].method = "DELETE attachment" => (k = 2 /\ new[1].resp = "found")
            /\ \A k \in 1..Len(new) : new[k].id = key[1] /\ new[k].title = key[2]
            /\ attachments'[key] <= 1
            /\ call.res = "ok" => attachments'[key] = 1
            /\ \A other \in AttachmentKeys \ {key} : attachments'[other] = attachments[other]]_vars

\* the same name uploaded twice: the second call finds the attachment of the
\* first, deletes it and posts again
C23_Witness ==
    /\ Len(calls) = 2
    /\ calls[1].call = "uploadAttachment" /\ calls[1].res = "ok"
    /\ calls[2].call = "uploadAttachment" /\ calls[2].res = "ok"
    /\ calls[1].body = calls[2].body
    /\ Methods(reqs) = <<"GET attachment", "POST attachment",
                         "GET attachment", "DELETE attachment", "POST attachment">>
    /\ reqs[3].resp = "found"
    /\ attachments[<<"p1", "mermaid-0.svg">>] = 1

----------------------------------------------------------------------------
(* processMermaidBlocks *)

\* where the diagram blocks of the source stand, in document order
DiagramPositions(md) == {k \in 1..Len(md) : md[k].kind = "mermaid"}

\* the position of the diagram block with ordinal i
DiagramAt(md, i) ==
    CHOOSE k \in DiagramPositions(md) :
        Cardinality({j \in DiagramPositions(md) : j < k}) = i

\* C24: processMermaidBlocks returns one list entry per diagram block of the
\* source, entry i carrying index i (0-based, document order) and the trimmed
\* body of the i-th block; the returned text has the placeholder of ordinal i
\* where the i-th block stood, once, and every other block where it was.
C24_BlocksInDocumentOrder ==
    (running /\ Converted) =>
        LET n == Cardinality(DiagramPositions(src))
        IN /\ Len(rendering) = n
           /\ \A i \in 0..(n - 1) :
                 /\ rendering[i + 1].index = i
                 /\ rendering[i + 1].code = Trim(src[DiagramAt(src, i)].code)
                 /\ {k \in 1..Len(processed) : processed[k] = PlaceholderBlock(i)}
                       = {DiagramAt(src, i)}
           /\ Len(processed) = Len(src)
           /\ \A k \in (1..Len(src)) \ DiagramPositions(src) : processed[k] = src[k]

\* two diagram blocks with the same text around a paragraph
C24_Witness ==
    /\ running /\ Converted
    /\ src = <<MermaidBlock(<<Ch("g"), Ch("\n")>>), TextBlock,
               MermaidBlock(<<Ch("g"), Ch("\n")>>)>>
    /\ processed = <<PlaceholderBlock(0), TextBlock, PlaceholderBlock(1)>>
    /\ rendering[2].index = 1 /\ rendering[2].code = <<Ch("g")>>

----------------------------------------------------------------------------
(* Links and images *)

\* the image constructs ![text](url) of a text, and its link constructs
\* [text](url) that are not part of an image construct: what is left to the
\* link pattern once the images are taken
NumImages(md) == Count(Images(md, 1), Mk("<ac:image>"))

NumLinks(md) == Count(Links(Images(md, 1), 1), Mk("<a href="))

\* C25: every image construct ![text](url), with empty or non-empty text,
\* comes out of convertMarkdownToConfluence as an <ac:image> element and not
\* as an anchor, and every link construct [text](url) that is not part of an
\* image construct comes out as an anchor.
C25_Original ==
    (mpc \in {"restore", "done"} /\ markdownArg \in LinkMarkdowns) =>
        /\ Count(content, Mk("<ac:image>")) = NumImages(markdownArg)
        /\ Count(content, Mk("<a href=")) = NumLinks(markdownArg)

\* the image ![a](u) came out as "!" and an anchor
C25_Witness ==
    /\ mpc = "done"
    /\ markdownArg = <<Ch("!"), Ch("["), Ch("a"), Ch("]"), Ch("("), Ch("u"), Ch(")")>>
    /\ content = <<Mk("<p>"), Ch("!"), Mk("<a href="), Ch("u"), Mk(">"), Ch("a"), Mk("</a>"),
                   Mk("</p>")>>

----------------------------------------------------------------------------
(* Empty-element tags after the clean-up *)

\* an hr or br tag starts at p: the name and then white space, "/" or ">"
TagStartsAt(s, p, name) ==
    /\ HasWord(s, p, <<"<">> \o name)
    /\ \E c \in {" ", "\n", "/", ">"} : IsChar(s, p + 1 + Len(name), c)

\* the tag at p is spelled <hr/> or <br/>
SelfClosingAt(s, p, name) ==
    SubSeq(s, p, p + Len(name) + 2) = Chars(<<"<">> \o name \o <<"/", ">">>)

\* C26: after the clean-up of SimpleConfluenceConverter.convert no hr or br
\* tag is left outside code in a spelling other than <hr/>, <br/>, no </hr>
\* or </br> is left, and the chain of replace calls applied to its own result
\* changes nothing.
C26_Original ==
    /\ cpc \in {"cleaned", "again"} =>
          \A p \in 1..Len(cleaned) : \A name \in {<<"h", "r">>, <<"b", "r">>} :
              /\ TagStartsAt(cleaned, p, name) => SelfClosingAt(cleaned, p, name)
              /\ ~HasWord(cleaned, p, <<"<", "/">> \o name \o <<">">>)
    /\ cpc = "again" => content = cleaned

\* the pieces "<h" and "r>" around a closing tag: the removal of </hr> leaves
\* <hr>, which the second application rewrites
C26_Witness ==
    /\ cpc = "again"
    /\ codeText = Chars(<<"<", "h", "<", "/", "h", "r", ">", "r", ">">>)
    /\ cleaned = Chars(<<"<", "h", "r", ">">>)
    /\ content = Chars(<<"<", "h", "r", "/", ">">>)

----------------------------------------------------------------------------
(* Code placeholders *)

\* the pieces of code of a markdown text
CodePieces(md) == {k \in 1..Len(md) : md[k] \in {FencedCode, FencedDollar, InlineCode}}

\* what convert returns for md on a converter that was never used
FreshOutput(md) ==
    LET e == ExtractCodeBlocks(md, 0, <<>>)
    IN RestoreCodeBlocks(FormatLine(e.out), e.blocks)

\* C27: in one run of convert the placeholders minted are pairwise distinct
\* and carry the ordinals 0, 1, 2, ... in minting order, those of all fenced
\* blocks before those of the inline spans; counter and map are reset at the
\* start of a run, so that a second run on the same converter with the same
\* input returns what a fresh converter returns.
C27_OrdinalsAndReset ==
    /\ mpc \in {"format", "restore", "done"} =>
          /\ Len(codeBlocks) = Cardinality(CodePieces(markdownArg))
          /\ codeBlockCounter = Len(codeBlocks)
          /\ \A k \in 1..Len(codeBlocks) :
                codeBlocks[k].placeholder = CodeBlockPlaceholder(k - 1)
          /\ \A j, k \in 1..Len(codeBlocks) :
                j /= k => codeBlocks[j].placeholder /= codeBlocks[k].placeholder
          /\ \A j, k \in 1..Len(codeBlocks) :
                (codeBlocks[j].block /= InlineCodeBlock /\ codeBlocks[k].block = InlineCodeBlock)
                    => j < k
    /\ mpc = "done" => content = FreshOutput(markdownArg)

\* the second run on a converter, for an inline span that stands before a
\* fenced block
C27_Witness ==
    /\ mpc = "done"
    /\ runs = 2
    /\ markdownArg = <<InlineCode, Ch("a"), FencedCode>>
    /\ codeBlocks = <<[placeholder |-> CodeBlockPlaceholder(0), block |-> ConfluenceCodeBlock],
                      [placeholder |-> CodeBlockPlaceholder(1), block |-> InlineCodeBlock]>>

----------------------------------------------------------------------------
(* restoreCodeBlocks *)

\* text with every occurrence of a placeholder of blocks replaced by the
\* fragment stored under it, and nothing else changed
RECURSIVE ExactlyRestored(_, _, _)
ExactlyRestored(text, blocks, k) ==
    IF k > Len(text) THEN <<>>
    ELSE LET here == {b \in 1..Len(blocks) : k \in IndexesOf(text, blocks[b].placeholder)}
         IN IF here = {} THEN <<text[k]>> \o ExactlyRestored(text, blocks, k + 1)
            ELSE LET b == CHOOSE b \in here : TRUE
                 IN blocks[b].block
                    \o ExactlyRestored(text, blocks, k + Len(blocks[b].placeholder))

\* the entries of blocks in every order
Orders(blocks) ==
    {[k \in 1..Len(blocks) |-> blocks[f[k]]] :
        f \in {g \in [1..Len(blocks) -> 1..Len(blocks)] :
                  \A i, j \in 1..Len(blocks) : i /= j => g[i] /= g[j]}}

\* C28: restoreCodeBlocks replaces each placeholder occurrence by exactly the
\* fragment stored under that placeholder, and its result does not depend on
\* the order in which the fragments are restored.
C28_Original ==
    [][(mpc = "format" /\ mpc' = "restored") =>
         /\ content' = ExactlyRestored(content, codeBlocks, 1)
         /\ \A order \in Orders(codeBlocks) : RestoreFrom(content, order, 1) = content']_vars

\* a fenced block with the code $' before an inline span: the text after the
\* placeholder, with the placeholder of the span, took the place of $', and the
\* placeholder of the span is still in the text
C28_Witness ==
    /\ mpc = "restored"
    /\ markdownArg = <<FencedDollar, InlineCode>>
    /\ content = <<CodeOpen(LanguageMap("js"))>> \o InlineCodeBlock \o <<Ch("\n")>> \o CodeClose
                 \o CodeBlockPlaceholder(1)

----------------------------------------------------------------------------
(* A settings change while an action is in flight *)

\* The Render Mermaid Charts toggle of the settings tab (part_003:129-145):
\* settings.enableMermaid = value, then saveSettings() (main.ts:67-73), which
\* replaces plugin.api and plugin.converter, then plugin.converter is replaced
\* once more by new SimpleConfluenceConverter(value).  The running action keeps
\* no reference to the converter it called convert on: it reads plugin.converter
\* again after the initial publish (main.ts:152, 257)
ToggleMermaid(value) ==
    /\ settings' = [settings EXCEPT !.enableMermaid = value]
    /\ converterMermaid' = value
    /\ UNCHANGED <<pc, op, src, spaceKey, running, pageId, mermaidData, processed, rendering,
                   finalHtml, idx, renderer, upd, calls, reqs, store, settings0, notices,
                   modalOpen>>
    /\ Aside

NextRace ==
    \/ NextLive
    \/ \E value \in BOOLEAN : ToggleMermaid(value)

InitRace == PInit /\ LIdle /\ CIdle /\ TIdle /\ MIdle

SpecRace == InitRace /\ [][NextRace]_vars

ReportedSuccess == \E k \in 1..Len(notices) : notices[k].kind = "success"
CleanFinalPublish ==
    \E k \in 1..Len(PublishCalls) :
        /\ PublishCalls[k].phase = "final"
        /\ ~HasPlaceholder(PublishCalls[k].body)

\* C29: however a settings change interleaves with a running upload or create
\* action, an action whose conversion produced a non-empty diagram list and
\* that reports success has issued a final publish whose body holds no diagram
\* placeholder.
C29_Original ==
    (ReportedSuccess /\ NumDiagrams >= 1) => CleanFinalPublish

\* The converter was replaced by one without a renderer after convert returned
\* a diagram, and the action reported success with the placeholder published
C29_Witness ==
    /\ ReportedSuccess
    /\ NumDiagrams >= 1
    /\ running /\ ~converterMermaid
    /\ FinalCalls = <<>>
    /\ HasPlaceholder(PublishCalls[Len(PublishCalls)].body)

----------------------------------------------------------------------------
(* The remembered page id after a failed upload *)

\* C30: when an upload action ends in Failed, settings.lastPageId has the value
\* it had when the action started, also when the initial publish succeeded
\* and the final publish failed.
C30_Original ==
    (op = "upload" /\ pc = "Failed") => settings.lastPageId = settings0.lastPageId

\* An upload whose initial publish succeeded and whose final publish failed
C30_Witness ==
    /\ op = "upload" /\ pc = "Failed"
    /\ Len(PublishCalls) = 2
    /\ PublishCalls[1].res = "ok"
    /\ PublishCalls[2].phase = "final"
    /\ PublishCalls[2].res /= "ok"
    /\ settings.lastPageId = pageId
    /\ settings0.lastPageId /= pageId

----------------------------------------------------------------------------
(* Upload attempts and render results *)

\* the render of ordinal i returned an svg
RenderOk(i) == \E k \in 1..Len(RenderCalls) : RenderCalls[k].ord = i /\ RenderCalls[k].res = "ok"
\* the calls of uploadAttachment for ordinal i
UploadsOf(i) == {k \in 1..Len(UploadCalls) : UploadCalls[k].ord = i}
UploadFailed(i) == \E k \in UploadsOf(i) : UploadCalls[k].res /= "ok"
FallbackHeads(s) == Cardinality(Positions(s, Mk("<mermaid-macro><![CDATA[")))

\* C31: once the loop has handled ordinal i, uploadAttachment was called for i
\* (once) iff the render of i returned an svg, and never before its turn;
\* every handled diagram whose render failed got a fallback code block, so the
\* fallback blocks of the document are those of the failed renders and of the
\* failed uploads.
C31_UploadIffRendered ==
    /\ \A i \in 0..(MaxBlocks - 1) :
           Cardinality(UploadsOf(i)) = IF i < idx /\ RenderOk(i) THEN 1 ELSE 0
    /\ pc \in {"Resolving", "UpdatePage"} /\ upd.phase = "final" =>
           FallbackHeads(finalHtml) =
               Cardinality({i \in 0..(idx - 1) : ~RenderOk(i) \/ UploadFailed(i)})

\* The loop is over: one diagram failed to render and got its fallback with
\* no upload, another one rendered and was uploaded
C31_Witness ==
    /\ pc = "UpdatePage" /\ upd.phase = "final"
    /\ idx = 2
    /\ ~RenderOk(0) /\ UploadsOf(0) = {}
    /\ RenderOk(1) /\ UploadsOf(1) /= {} /\ ~UploadFailed(1)
    /\ FallbackHeads(finalHtml) = 1

----------------------------------------------------------------------------
(* The remembered page id of a create action *)

\* C32: a create action whose createPage returned the id of the new page has
\* that id in settings.lastPageId when it ends, in Done and in Failed alike.
C32_Original ==
    (op = "create" /\ Ended /\ Created(pageId)) => settings.lastPageId = pageId

\* The page was created, the final publish of the resolved document failed
\* and the action ended without the id of the new page in the settings
C32_Witness ==
    /\ op = "create" /\ pc = "Failed"
    /\ Created(NewPageId) /\ pageId = NewPageId
    /\ FinalCalls /= <<>>
    /\ FinalCalls[Len(FinalCalls)].res /= "ok"
    /\ settings.lastPageId /= NewPageId

----------------------------------------------------------------------------
(* What uploadAttachment returns *)

\* this step is a call of uploadAttachment
AttachmentStep ==
    /\ Len(calls') = Len(calls) + 1
    /\ calls'[Len(calls')].call = "uploadAttachment"

\* the requests of this step hold one of that kind with that answer
IssuedWith(kind, resp) ==
    \E k \in (Len(reqs) + 1)..Len(reqs') : reqs'[k].method = kind /\ reqs'[k].resp = resp

\* C33: uploadAttachment returns the file name only when its POST to the REST
\* endpoint was answered 2xx with a non-empty results list, or when that POST
\* was answered 'XSRF check failed' and the POST to the drag-and-drop endpoint
\* was answered 2xx; in every other case (a request that rejects, a failed
\* DELETE, a 403 or another status, an empty results list, a failure of the
\* drag-and-drop endpoint, arguments or credentials missing) it throws an error.
C33_ReturnsOnlyAfterUpload ==
    [][AttachmentStep =>
         LET res == calls'[Len(calls')].res
             uploaded == \/ IssuedWith("POST attachment", "ok")
                         \/ /\ IssuedWith("POST attachment", "xsrf")
                            /\ IssuedWith("POST upload.action", "ok")
         IN /\ res = "ok" <=> uploaded
            /\ ~uploaded => res \in {ErrAttachArgs, ErrBasic, ErrToken, ErrNetwork, ErrDelete,
                                     ErrLegacy, ErrForbidden, ErrNoAttachment, ErrUpload}]_vars

\* One call got 2xx without results and threw, another one was answered
\* 'XSRF check failed' and returned the name after the drag-and-drop POST
C33_Witness ==
    /\ \E k \in 1..Len(calls) :
           calls[k].call = "uploadAttachment" /\ calls[k].res = ErrNoAttachment
    /\ \E k \in 1..Len(calls) : calls[k].call = "uploadAttachment" /\ calls[k].res = "ok"
    /\ \E k \in 1..Len(reqs) : reqs[k].method = "POST attachment" /\ reqs[k].resp = "empty"
    /\ \E k \in 1..(Len(reqs) - 1) :
           /\ reqs[k].method = "POST attachment" /\ reqs[k].resp = "xsrf"
           /\ reqs[k + 1].method = "POST upload.action" /\ reqs[k + 1].resp = "ok"
    /\ ~\E k \in 1..Len(reqs) : reqs[k].method = "POST attachment" /\ reqs[k].resp = "ok"

----------------------------------------------------------------------------
(* A conversion that raises an error *)

\* convert returned the fallback paragraph and a null diagram list
ConvertFellBack == Converted /\ mermaidData.null /\ finalHtml = FallbackHtml(src)

\* C34: convert never fails. The step in which it returns shows no failure
\* notice and hands the action either the converted document or, when the
\* conversion raised an error, the fallback paragraph of the source with a
\* null diagram list; an action that got the fallback makes no attachment
\* upload and issues exactly one publish call, whose body is the fallback.
C34_ConvertNeverFails ==
    /\ [][pc = "Converting" /\ pc' /= "Converting" =>
            /\ pc' \in {"UpdatePage", "CreatePage"}
            /\ notices' = notices /\ modalOpen'
            /\ \/ finalHtml' = ConvertHtml(processed) /\ (mermaidData'.null <=> ~running)
               \/ finalHtml' = FallbackHtml(src) /\ mermaidData'.null]_vars
    /\ [](ConvertFellBack =>
            /\ Len(UploadCalls) = 0
            /\ Len(PublishCalls) <= 1
            /\ \A k \in 1..Len(PublishCalls) : PublishCalls[k].body = FallbackHtml(src)
            /\ Ended => Len(PublishCalls) = 1)

\* Diagram rendering was on, a diagram was rendered, the conversion raised an
\* error, and the action published the fallback once and ended in Done
C34_Witness ==
    /\ pc = "Done"
    /\ running /\ mermaidData.null
    /\ \E k \in 1..Len(RenderCalls) : RenderCalls[k].res = "ok"
    /\ finalHtml = FallbackHtml(src)
    /\ finalHtml /= ConvertHtml(processed)
    /\ Len(PublishCalls) = 1 /\ PublishCalls[1].res = "ok"
    /\ Len(UploadCalls) = 0

----------------------------------------------------------------------------
(* Diagram rendering disabled *)

\* the action called convert on a converter built with enableMermaid = false
RenderingDisabled == pc /= "Idle" /\ ~running

\* C35: an action whose converter was built with enableMermaid = false makes
\* no render attempt and no attachment upload and issues exactly one publish
\* call, however many diagram blocks the source holds, and the body it
\* publishes holds no diagram placeholder.
C35_DisabledRendering ==
    RenderingDisabled =>
        /\ Len(RenderCalls) = 0
        /\ Len(UploadCalls) = 0
        /\ Len(PublishCalls) <= 1
        /\ Ended => Len(PublishCalls) = 1
        /\ \A k \in 1..Len(PublishCalls) : ~HasPlaceholder(PublishCalls[k].body)
        /\ Converted => ~HasPlaceholder(finalHtml)

\* Rendering is off, the source holds two diagram blocks, and the action is
\* Done after one publish call whose body shows them as plain code
C35_Witness ==
    /\ pc = "Done" /\ ~running
    /\ Len(Matches(src)) = 2
    /\ Len(PublishCalls) = 1 /\ PublishCalls[1].res = "ok"
    /\ Contains(PublishCalls[1].body, <<Mk("<pre><code>mermaid\n")>>)
    /\ Len(RenderCalls) = 0 /\ Len(UploadCalls) = 0

====
